---- MODULE Spec2Model ----
(***************************************************************************)
(* Verification model of vaelen/mush: the single-writer world loop          *)
(* (World.WorldThread), its persistence (saveState / LoadWorld), the        *)
(* connection registry (ConnectionManager) and the server's shutdown        *)
(* sequence (Server.StartServer), with the session handlers that drive      *)
(* them.  Go channels are unbuffered: a send and its receive are one        *)
(* rendezvous step, and a goroutine's position between two blocking points  *)
(* is a program counter.                                                    *)
(***************************************************************************)
EXTENDS Integers, Sequences, FiniteSets, TLC

VARIABLES
  db,                \* World.db : WorldDatabase
  wpc,               \* WorldThread position: "select", "ack", "stopped"
  wack,              \* the reply the loop is blocked sending (e.Ack <- v)
  disk,              \* the files saveState writes and LoadWorld reads
  now,               \* time.Now() at the resolution of the backup's file name
  pc,                \* each session handler's position, and StartServer's
  req,               \* the message a handler is sending / has sent
  player,            \* Connection.Player of an authenticated session (0: none)
  ret,               \* where a handler goes on once its reply arrived
  got,               \* the reply (and its request) a handler is working on
  connections,       \* ConnectionManager.connections
  connID,            \* Connection.ID of each session
  nextConnectionID,  \* ConnectionManager.nextConnectionID
  cmpc,              \* ConnectionManagerThread position
  cmack,             \* the session whose e.ack the manager is blocked on
  transport,         \* each session's net.Conn: "none", "open", "closed"
  forced,            \* sessions whose transport the manager's shutdown closed
  connLog,           \* history: the connection IDs assigned, in order
  issued,            \* history: per kind, the IDs creates have returned
  rolledBack,        \* history: a restart loaded less than was in memory
  hist,              \* history: the requests the loop handled, in order
  nCreates,          \* history: number of create requests issued
  direct,            \* history: who last touched db outside the loop
  nRestarts,         \* history: number of starts of the process after the first
  lists,             \* each caller's Connections() call: its position and copy
  wire,              \* the bytes the peer sent that no Read has delivered yet
  reads,             \* what each Read of the wrapped connection delivered
  outs,              \* what each Read of the interceptor handed to its caller
  ferr,              \* the wrapped connection's Read returned an error
  passwords,         \* the password records: player ID -> hash
  plain,             \* history: per player ID, the last two passwords set
  text,              \* the text handed to ParseId
  parsed,            \* what ParseId returned for it
  wall               \* per broadcasting session: the recipients addressed

worldVars == <<db, wpc, wack>>
diskVars == <<disk, now>>
callVars == <<pc, req, ret, got>>
sessVars == <<player, transport>>
cmVars == <<connections, connID, nextConnectionID, cmpc, cmack, forced, connLog>>
histVars == <<issued, rolledBack, hist, nCreates, direct, nRestarts>>
filterVars == <<wire, reads, outs, ferr>>
pwVars == <<passwords, plain>>
idVars == <<text, parsed>>
wallVars == <<wall>>
auxVars == <<lists, filterVars, pwVars, idVars, wallVars>>

vars == <<worldVars, diskVars, callVars, sessVars, cmVars, histVars, auxVars>>

(***************************************************************************)
(* Bounds of the model.                                                     *)
(***************************************************************************)
NumSessions == 2
MaxCreates == 2
MaxHist == 3
MaxTime == 2
MaxRestarts == 2
MaxConns == 3

Sessions == 1..NumSessions

\* The goroutine running Server.StartServer, as a caller of the world loop.
Server == 0

Callers == {Server} \cup Sessions

(***************************************************************************)
(* Data model (src/game.go, second snapshot: lines 235-344).                *)
(***************************************************************************)
L_ROOM == 0
L_PLAYER == 1
L_ITEM == 2

\* A nil *Location in a Find message.
NilLocation == [Id |-> 0, Type |-> -1]

Location(id, type) == [Id |-> id, Type |-> type]

PlayerNames == {"ann", "Ann"}

\* strings.ToLower on the names the model uses.
ToLower(s) == IF s = "Ann" THEN "ann" ELSE s

EmptyMap == [k \in {} |-> k]

Values(m) == {m[k] : k \in DOMAIN m}

Delete(m, id) == [k \in DOMAIN m \ {id} |-> m[k]]

\* NewWorld: counters at 1, then the seed room takes room ID 1.
NewWorld ==
  [PlayerId |-> 1, RoomId |-> 2, ItemId |-> 1, DefaultRoom |-> 1,
   Players |-> EmptyMap,
   Rooms |-> (1 :> [Id |-> 1, Name |-> "Main Lobby",
                    Desc |-> "This is the main lobby.", Owner |-> 1]),
   Items |-> EmptyMap]

(***************************************************************************)
(* Messages of the world loop (src/game.go:412-467).                        *)
(***************************************************************************)
NoMsg == [op |-> "none"]

FindPlayerMessage(id, name, loc) ==
  [op |-> "FindPlayer", Id |-> id, Name |-> name, Location |-> loc]
NewPlayerMessage(name) == [op |-> "NewPlayer", Name |-> name]
DestroyPlayerMessage(id) == [op |-> "DestroyPlayer", Id |-> id]
FindRoomMessage(id, owner) == [op |-> "FindRoom", Id |-> id, Owner |-> owner]
NewRoomMessage(name, owner) == [op |-> "NewRoom", Name |-> name, Owner |-> owner]
DestroyRoomMessage(id) == [op |-> "DestroyRoom", Id |-> id]
FindItemMessage(id, owner, loc) ==
  [op |-> "FindItem", Id |-> id, Owner |-> owner, Location |-> loc]
NewItemMessage(name, owner) == [op |-> "NewItem", Name |-> name, Owner |-> owner]
DestroyItemMessage(id) == [op |-> "DestroyItem", Id |-> id]
SaveWorldStateMessage == [op |-> "SaveWorldState"]

\* Replies, tagged so that values of different Go types stay comparable.
NoReply == [t |-> "none"]
Bool(b) == [t |-> "bool", v |-> b]
Slice(s) == [t |-> "slice", v |-> s]
Ptr(e) == [t |-> "ptr", v |-> e]
Err(e) == [t |-> "error", v |-> e]

(***************************************************************************)
(* The find helpers (src/game.go:588-637).  A slice built by ranging over   *)
(* a map has no fixed order: it is modelled as the set of its elements.     *)
(* findPlayerByName returns the first match of an unordered iteration: any  *)
(* of the matches.                                                          *)
(***************************************************************************)
findPlayerByName(d, name) ==
  LET m == {p \in Values(d.Players) : ToLower(p.Name) = ToLower(name)}
  IN  IF m = {} THEN {{}} ELSE {{p} : p \in m}

findPlayerByLocation(d, loc) == {p \in Values(d.Players) : p.Location = loc}

findRoomByOwner(d, id) == {r \in Values(d.Rooms) : r.Owner = id}

findItemByLocation(d, loc) == {i \in Values(d.Items) : i.Location = loc}

findItemByOwner(d, id) == {i \in Values(d.Items) : i.Owner = id}

(***************************************************************************)
(* Persistence (src/game.go:639-685).  The backup file of a save is named   *)
(* by the time of the save; world.gob is a hard link to one backup file, so *)
(* disk.cur names the backup whose content world.gob shows (0: no file).    *)
(***************************************************************************)
Good(d) == [ok |-> TRUE, db |-> d]

\* A file that was created (truncated) but holds no complete encoding.
Garbled == [ok |-> FALSE, db |-> NewWorld]

NoDisk == [backups |-> EmptyMap, cur |-> 0]

SaveOutcomes == {"ok", "createErr", "encodeErr", "linkErr"}

\* saveState with the storage behaving as `outcome` says: os.Create fails
\* (nothing written), the encoder fails (the created file is left
\* incomplete), os.Link fails after os.Remove (a warning only), or all
\* succeed.  The result is the error returned and the disk afterwards.
saveState(d, dk, t, outcome) ==
  IF outcome = "createErr" THEN [err |-> TRUE, disk |-> dk]
  ELSE IF outcome = "encodeErr"
    THEN [err |-> TRUE, disk |-> [dk EXCEPT !.backups = (t :> Garbled) @@ @]]
  ELSE IF outcome = "linkErr"
    THEN [err |-> FALSE,
          disk |-> [backups |-> (t :> Good(d)) @@ dk.backups, cur |-> 0]]
  ELSE [err |-> FALSE,
        disk |-> [backups |-> (t :> Good(d)) @@ dk.backups, cur |-> t]]

\* gob's Decode if it left the counters of the receiver alone.
Decode_CountersKept(dst, src) ==
  [PlayerId |-> dst.PlayerId, RoomId |-> dst.RoomId, ItemId |-> dst.ItemId,
   DefaultRoom |-> dst.DefaultRoom,
   Players |-> src.Players @@ dst.Players,
   Rooms |-> src.Rooms @@ dst.Rooms,
   Items |-> src.Items @@ dst.Items]

\* gob's Decode into the database NewWorld built: a field sent as zero is
\* not transmitted and keeps the receiver's value; map entries are added to
\* the receiver's map.
Decode(dst, src) ==
  [PlayerId |-> IF src.PlayerId = 0 THEN dst.PlayerId ELSE src.PlayerId,
   RoomId |-> IF src.RoomId = 0 THEN dst.RoomId ELSE src.RoomId,
   ItemId |-> IF src.ItemId = 0 THEN dst.ItemId ELSE src.ItemId,
   DefaultRoom |-> IF src.DefaultRoom = 0 THEN dst.DefaultRoom ELSE src.DefaultRoom,
   Players |-> src.Players @@ dst.Players,
   Rooms |-> src.Rooms @@ dst.Rooms,
   Items |-> src.Items @@ dst.Items]

\* A LoadWorld that goes on with what it has when the decoder fails.
LoadWorld_Lenient(dk) ==
  IF dk.cur = 0 THEN [err |-> FALSE, db |-> NewWorld]
  ELSE [err |-> FALSE, db |-> Decode(NewWorld, dk.backups[dk.cur].db)]

\* LoadWorld: no world.gob is a first boot; an undecodable one is an error.
LoadWorld(dk) ==
  IF dk.cur = 0 THEN [err |-> FALSE, db |-> NewWorld]
  ELSE IF ~dk.backups[dk.cur].ok THEN [err |-> TRUE, db |-> NewWorld]
  ELSE [err |-> FALSE, db |-> Decode(NewWorld, dk.backups[dk.cur].db)]

(***************************************************************************)
(* The cases of WorldThread's select (src/game.go:474-584).  Each gives the *)
(* outcomes of the case up to its first send on e.Ack: the database then,   *)
(* the value sent, and whether the case goes on after that send (more).     *)
(***************************************************************************)
Outcome(d, dk, val, more) == [db |-> d, disk |-> dk, val |-> val, more |-> more]

FindPlayerCase(d, dk, e) ==
  LET rs == IF e.Id > 0
              THEN {IF e.Id \in DOMAIN d.Players THEN {d.Players[e.Id]} ELSE {}}
            ELSE IF e.Name # "" THEN findPlayerByName(d, e.Name)
            ELSE IF e.Location # NilLocation
              THEN {findPlayerByLocation(d, e.Location)}
            ELSE {{}}
  IN  {Outcome(d, dk, Slice(r), FALSE) : r \in rs}

\* A NewPlayer case that forgets w.db.PlayerId++.
NewPlayerCase_NoIncrement(d, dk, e) ==
  LET id == d.PlayerId
      p == [Id |-> id, Name |-> e.Name,
            Location |-> Location(d.DefaultRoom, L_ROOM), Admin |-> (id = 1)]
  IN  {Outcome([d EXCEPT !.Players = (id :> p) @@ @], dk, Ptr(p), FALSE)}

NewPlayerCase(d, dk, e) ==
  LET id == d.PlayerId
      p == [Id |-> id, Name |-> e.Name,
            Location |-> Location(d.DefaultRoom, L_ROOM), Admin |-> (id = 1)]
  IN  {Outcome([d EXCEPT !.PlayerId = id + 1, !.Players = (id :> p) @@ @],
               dk, Ptr(p), FALSE)}

\* if e.Id == 1 { e.Ack <- false } is not followed by a return: the case
\* goes on to the delete and to a second send.
DestroyPlayerCase(d, dk, e) ==
  IF e.Id = 1 THEN {Outcome(d, dk, Bool(FALSE), TRUE)}
  ELSE {Outcome([d EXCEPT !.Players = Delete(@, e.Id)], dk, Bool(TRUE), FALSE)}

FindRoomCase(d, dk, e) ==
  LET r == IF e.Id > 0
             THEN IF e.Id \in DOMAIN d.Rooms THEN {d.Rooms[e.Id]} ELSE {}
           ELSE IF e.Owner > 0 THEN findRoomByOwner(d, e.Owner)
           ELSE {}
  IN  {Outcome(d, dk, Slice(r), FALSE)}

NewRoomCase(d, dk, e) ==
  LET id == d.RoomId
      r == [Id |-> id, Name |-> e.Name, Desc |-> "", Owner |-> e.Owner]
  IN  {Outcome([d EXCEPT !.RoomId = id + 1, !.Rooms = (id :> r) @@ @],
               dk, Ptr(r), FALSE)}

DestroyRoomCase(d, dk, e) ==
  IF e.Id = 1 THEN {Outcome(d, dk, Bool(FALSE), TRUE)}
  ELSE {Outcome([d EXCEPT !.Rooms = Delete(@, e.Id)], dk, Bool(TRUE), FALSE)}

\* A FindItem case that appends what the map lookup gave without the nil
\* check: for an ID that is not in the map, a nil *Item.
FindItemCase_NoNilCheck(d, dk, e) ==
  LET nil == [Id |-> 0, Name |-> "", Owner |-> 0, Location |-> NilLocation]
      r == IF e.Id > 0
             THEN IF e.Id \in DOMAIN d.Items THEN {d.Items[e.Id]} ELSE {nil}
           ELSE IF e.Owner > 0 THEN findItemByOwner(d, e.Owner)
           ELSE IF e.Location # NilLocation THEN findItemByLocation(d, e.Location)
           ELSE {}
  IN  {Outcome(d, dk, Slice(r), FALSE)}

FindItemCase(d, dk, e) ==
  LET r == IF e.Id > 0
             THEN IF e.Id \in DOMAIN d.Items THEN {d.Items[e.Id]} ELSE {}
           ELSE IF e.Owner > 0 THEN findItemByOwner(d, e.Owner)
           ELSE IF e.Location # NilLocation THEN findItemByLocation(d, e.Location)
           ELSE {}
  IN  {Outcome(d, dk, Slice(r), FALSE)}

NewItemCase(d, dk, e) ==
  LET id == d.ItemId
      i == [Id |-> id, Name |-> e.Name, Owner |-> e.Owner,
            Location |-> Location(e.Owner, L_PLAYER)]
  IN  {Outcome([d EXCEPT !.ItemId = id + 1, !.Items = (id :> i) @@ @],
               dk, Ptr(i), FALSE)}

\* A DestroyItem case that gives the ID back when it was the last one issued.
DestroyItemCase_FreesID(d, dk, e) ==
  {Outcome([d EXCEPT !.Items = Delete(@, e.Id),
                     !.ItemId = IF e.Id + 1 = @ THEN e.Id ELSE @],
           dk, Bool(TRUE), FALSE)}

DestroyItemCase(d, dk, e) ==
  {Outcome([d EXCEPT !.Items = Delete(@, e.Id)], dk, Bool(TRUE), FALSE)}

\* A SaveWorldState case that answers nil whatever saveState returned.
SaveWorldStateCase_Swallow(d, dk, t) ==
  {LET s == saveState(d, dk, t, o) IN Outcome(d, s.disk, Err(FALSE), FALSE)
     : o \in SaveOutcomes}

SaveWorldStateCase(d, dk, t) ==
  {LET s == saveState(d, dk, t, o) IN Outcome(d, s.disk, Err(s.err), FALSE)
     : o \in SaveOutcomes}

WorldOps == {"FindPlayer", "NewPlayer", "DestroyPlayer", "FindRoom", "NewRoom",
             "DestroyRoom", "FindItem", "NewItem", "DestroyItem",
             "SaveWorldState"}

Handle(d, dk, t, e) ==
  CASE e.op = "FindPlayer" -> FindPlayerCase(d, dk, e)
    [] e.op = "NewPlayer" -> NewPlayerCase(d, dk, e)
    [] e.op = "DestroyPlayer" -> DestroyPlayerCase(d, dk, e)
    [] e.op = "FindRoom" -> FindRoomCase(d, dk, e)
    [] e.op = "NewRoom" -> NewRoomCase(d, dk, e)
    [] e.op = "DestroyRoom" -> DestroyRoomCase(d, dk, e)
    [] e.op = "FindItem" -> FindItemCase(d, dk, e)
    [] e.op = "NewItem" -> NewItemCase(d, dk, e)
    [] e.op = "DestroyItem" -> DestroyItemCase(d, dk, e)
    [] e.op = "SaveWorldState" -> SaveWorldStateCase(d, dk, t)

\* What a Destroy case of ID 1 does once its first send was received:
\* the delete, then e.Ack <- true.
AfterFirstSend(d, e) ==
  IF e.op = "DestroyPlayer"
    THEN [db |-> [d EXCEPT !.Players = Delete(@, e.Id)], val |-> Bool(TRUE)]
    ELSE [db |-> [d EXCEPT !.Rooms = Delete(@, e.Id)], val |-> Bool(TRUE)]

(***************************************************************************)
(* WorldThread (src/game.go:469-586).                                       *)
(***************************************************************************)
NoAck == [to |-> Server, val |-> NoReply, more |-> FALSE, req |-> NoMsg]

\* StartServer has returned: main returns and the process is gone.
Exited == pc[Server] = "exited"

KindOf(op) ==
  CASE op = "NewPlayer" -> "player" [] op = "NewRoom" -> "room"
    [] op = "NewItem" -> "item" [] OTHER -> "none"

\* Positions at which a session handler is blocked on its transport:
\* reading the user name, reading a password, reading a command line.
IOStates == {"login", "loginFound", "io"}

\* A loop that takes a request only while no session is busy with its
\* transport.
WorldThreadRecv_AfterIO(c) ==
  /\ ~Exited
  /\ wpc = "select"
  /\ pc[c] = "sending"
  /\ \A a \in Sessions : pc[a] \notin IOStates
  /\ req[c].op \in WorldOps
  /\ \E o \in Handle(db, disk, now, req[c]) :
       /\ db' = o.db
       /\ disk' = o.disk
       /\ wack' = [to |-> c, val |-> o.val, more |-> o.more, req |-> req[c]]
       /\ issued' = IF KindOf(req[c].op) = "none" THEN issued
                    ELSE [issued EXCEPT ![KindOf(req[c].op)] = @ \cup {o.val.v.Id}]
  /\ wpc' = "ack"
  /\ pc' = [pc EXCEPT ![c] = "waiting"]
  /\ UNCHANGED <<sessVars, cmVars, now, req, ret, got, rolledBack, nCreates,
                 direct, nRestarts, auxVars>>

\* A loop whose case works on the database as it was loaded, not on the one
\* the earlier cases left.
WorldThreadRecv_Stale(c) ==
  /\ ~Exited
  /\ wpc = "select"
  /\ pc[c] = "sending"
  /\ req[c].op \in WorldOps
  /\ \E o \in Handle(NewWorld, disk, now, req[c]) :
       /\ db' = o.db
       /\ disk' = o.disk
       /\ wack' = [to |-> c, val |-> o.val, more |-> o.more, req |-> req[c]]
       /\ issued' = IF KindOf(req[c].op) = "none" THEN issued
                    ELSE [issued EXCEPT ![KindOf(req[c].op)] = @ \cup {o.val.v.Id}]
  /\ wpc' = "ack"
  /\ pc' = [pc EXCEPT ![c] = "waiting"]
  /\ UNCHANGED <<sessVars, cmVars, now, req, ret, got, rolledBack, nCreates,
                direct, nRestarts, auxVars>>

\* A loop that takes the next request while the answer of the last is not yet
\* taken.
WorldThreadRecv_Overlap(c) ==
  /\ ~Exited
  /\ wpc \in {"select", "ack"}
  /\ pc[c] = "sending"
  /\ req[c].op \in WorldOps
  /\ \E o \in Handle(db, disk, now, req[c]) :
       /\ db' = o.db
       /\ disk' = o.disk
       /\ wack' = [to |-> c, val |-> o.val, more |-> o.more, req |-> req[c]]
       /\ issued' = IF KindOf(req[c].op) = "none" THEN issued
                    ELSE [issued EXCEPT ![KindOf(req[c].op)] = @ \cup {o.val.v.Id}]
  /\ wpc' = "ack"
  /\ pc' = [pc EXCEPT ![c] = "waiting"]
  /\ UNCHANGED <<sessVars, cmVars, now, req, ret, got, rolledBack, nCreates,
                direct, nRestarts, auxVars>>

\* One case of the select: the message of caller c is received and the case
\* runs up to its send on e.Ack, where the loop blocks until c receives.
WorldThreadRecv(c) ==
  /\ ~Exited
  /\ wpc = "select"
  /\ pc[c] = "sending"
  /\ req[c].op \in WorldOps
  /\ \E o \in Handle(db, disk, now, req[c]) :
       /\ db' = o.db
       /\ disk' = o.disk
       /\ wack' = [to |-> c, val |-> o.val, more |-> o.more, req |-> req[c]]
       /\ issued' = IF KindOf(req[c].op) = "none" THEN issued
                    ELSE [issued EXCEPT ![KindOf(req[c].op)] = @ \cup {o.val.v.Id}]
  /\ wpc' = "ack"
  /\ pc' = [pc EXCEPT ![c] = "waiting"]
  /\ UNCHANGED <<sessVars, cmVars, now, req, ret, got, rolledBack, nCreates,
                direct, nRestarts, auxVars>>

\* A handler keeps the reply only where it goes on to work with it.
NoGot == [val |-> NoReply, req |-> NoMsg]

KeepsReply(r) ==
  r \in {"loginFound", "loginNew", "take", "drop", "summon", "summonRoom"}

\* The rendezvous of e.Ack <- v with the caller's <-ack.  The loop then runs
\* to its next blocking point: the select, or the second send of a Destroy
\* case of ID 1.
WorldThreadAck(c) ==
  /\ ~Exited
  /\ wpc = "ack"
  /\ wack.to = c
  /\ pc[c] = "waiting"
  /\ pc' = [pc EXCEPT ![c] = ret[c]]
  /\ req' = [req EXCEPT ![c] = NoMsg]
  /\ got' = [got EXCEPT ![c] = IF KeepsReply(ret[c])
                                  THEN [val |-> wack.val, req |-> wack.req]
                                  ELSE NoGot]
  /\ IF wack.more
       THEN LET r == AfterFirstSend(db, wack.req)
            IN  /\ db' = r.db
                /\ wack' = [wack EXCEPT !.val = r.val, !.more = FALSE]
                /\ wpc' = "ack"
       ELSE /\ db' = db
            /\ wack' = NoAck
            /\ wpc' = "select"
  /\ UNCHANGED <<diskVars, sessVars, cmVars, histVars, ret, auxVars>>

\* case <-saveTimer: w.saveState(), its error dropped.
WorldThreadSaveTimer ==
  /\ ~Exited
  /\ wpc = "select"
  /\ \E o \in SaveOutcomes : disk' = saveState(db, disk, now, o).disk
  /\ UNCHANGED <<worldVars, callVars, sessVars, cmVars, histVars, now,
                 auxVars>>

\* case <-w.Shutdown: return.  The sender is StartServer.
WorldThreadShutdown ==
  /\ ~Exited
  /\ wpc = "select"
  /\ pc[Server] = "worldStop"
  /\ wpc' = "stopped"
  /\ pc' = [pc EXCEPT ![Server] = "cmStop"]
  /\ UNCHANGED <<diskVars, sessVars, cmVars, histVars, db, wack, req, ret,
                got, auxVars>>

(***************************************************************************)
(* Callers of the world loop's channels.  A client is a goroutine that      *)
(* alternates between its transport (pc "io": blocked reading or writing    *)
(* the connection) and one request/reply round trip: ch <- msg; <-ack.      *)
(***************************************************************************)
RequestIDs == 1..2

\* Messages that reach every branch of every case of the select.
FindRequests ==
  {FindPlayerMessage(1, "", NilLocation), FindPlayerMessage(0, "ann", NilLocation),
   FindPlayerMessage(0, "", Location(1, L_ROOM)),
   FindPlayerMessage(0, "", NilLocation),
   FindRoomMessage(1, 0), FindRoomMessage(0, 1), FindRoomMessage(0, 0),
   FindItemMessage(1, 0, NilLocation), FindItemMessage(0, 1, NilLocation),
   FindItemMessage(0, 0, Location(1, L_PLAYER)),
   FindItemMessage(0, 0, NilLocation)}

CreateRequests ==
  {NewPlayerMessage("ann"), NewPlayerMessage("Ann"), NewRoomMessage("hall", 1),
   NewItemMessage("key", 1)}

DestroyRequests ==
  {DestroyPlayerMessage(i) : i \in RequestIDs}
    \cup {DestroyRoomMessage(i) : i \in RequestIDs}
    \cup {DestroyItemMessage(1)}

ClientRequests ==
  FindRequests \cup CreateRequests \cup DestroyRequests \cup {SaveWorldStateMessage}

IsCreate(m) == KindOf(m.op) # "none"

\* ch <- msg by a handler at position from, which will go on at position r
\* once <-ack returned: the handler blocks until the loop receives.
Send(c, from, m, r) ==
  /\ ~Exited
  /\ pc[c] = from
  /\ IsCreate(m) => nCreates < MaxCreates
  /\ pc' = [pc EXCEPT ![c] = "sending"]
  /\ req' = [req EXCEPT ![c] = m]
  /\ ret' = [ret EXCEPT ![c] = r]
  /\ nCreates' = IF IsCreate(m) THEN nCreates + 1 ELSE nCreates
  /\ UNCHANGED <<worldVars, diskVars, sessVars, cmVars, got, issued,
                 rolledBack, direct, nRestarts, auxVars>>

Call(c, from, m, r) == Send(c, from, m, r) /\ UNCHANGED hist

\* A client between two uses of its transport makes one round trip.
ClientIssue(c, m) == Call(c, "io", m, "io")

\* c.Server.Shutdown <- true (the shutdown command's send).
ClientShutdown(c) ==
  /\ ~Exited
  /\ pc[c] = "io"
  /\ pc' = [pc EXCEPT ![c] = "shutdownSend"]
  /\ UNCHANGED <<worldVars, diskVars, sessVars, cmVars, histVars, req, ret,
                got, auxVars>>

(***************************************************************************)
(* The connection registry (src/cm.go).  connections holds the registered   *)
(* Connection objects, named by their session; connID is the ID field of    *)
(* each object, which keeps its value when the object is removed.           *)
(***************************************************************************)
Opened(c) == [op |-> "Opened", c |-> c]
Closed(c) == [op |-> "Closed", c |-> c]

\* The index of the first registered connection with this ID, or -1.
findConnection(conns, ids, id) ==
  LET m == {i \in 1..Len(conns) : ids[conns[i]] = id}
  IN  IF m = {} THEN -1 ELSE CHOOSE i \in m : \A j \in m : i <= j

\* An addConnection that numbers a connection by its place in the slice.
addConnection_ByPlace(conns, ids, next, c) ==
  IF findConnection(conns, ids, ids[c]) > -1
    THEN [connections |-> conns, connID |-> ids, nextConnectionID |-> next,
          assigned |-> <<>>]
    ELSE [connections |-> Append(conns, c),
          connID |-> [ids EXCEPT ![c] = Len(conns) + 1],
          nextConnectionID |-> next + 1,
          assigned |-> <<Len(conns) + 1>>]

\* An addConnection that does not look the connection up first.
addConnection_Again(conns, ids, next, c) ==
  [connections |-> Append(conns, c),
   connID |-> [ids EXCEPT ![c] = next],
   nextConnectionID |-> next + 1,
   assigned |-> <<next>>]

addConnection(conns, ids, next, c) ==
  IF findConnection(conns, ids, ids[c]) > -1
    THEN [connections |-> conns, connID |-> ids, nextConnectionID |-> next,
          assigned |-> <<>>]
    ELSE [connections |-> Append(conns, c),
          connID |-> [ids EXCEPT ![c] = next],
          nextConnectionID |-> next + 1,
          assigned |-> <<next>>]

removeConnection(conns, ids, c) ==
  LET i == findConnection(conns, ids, ids[c])
  IN  IF i < 0 THEN conns
      ELSE SubSeq(conns, 1, i - 1) \o SubSeq(conns, i + 1, Len(conns))

\* case e := <-m.Opened: addConnection, then the manager blocks in e.ack <- true.
ConnectionManagerOpened(a) ==
  /\ ~Exited
  /\ cmpc = "select"
  /\ pc[a] = "cmSending"
  /\ req[a].op = "Opened"
  /\ LET r == addConnection(connections, connID, nextConnectionID, req[a].c)
     IN  /\ connections' = r.connections
         /\ connID' = r.connID
         /\ nextConnectionID' = r.nextConnectionID
         /\ connLog' = connLog \o r.assigned
  /\ cmpc' = "ack"
  /\ cmack' = a
  /\ pc' = [pc EXCEPT ![a] = "cmWaiting"]
  /\ UNCHANGED <<worldVars, diskVars, sessVars, histVars, req, ret, got, forced,
                 auxVars>>

\* case e := <-m.Closed: removeConnection, then e.ack <- true.
ConnectionManagerClosed(a) ==
  /\ ~Exited
  /\ cmpc = "select"
  /\ pc[a] = "cmSending"
  /\ req[a].op = "Closed"
  /\ connections' = removeConnection(connections, connID, req[a].c)
  /\ cmpc' = "ack"
  /\ cmack' = a
  /\ pc' = [pc EXCEPT ![a] = "cmWaiting"]
  /\ UNCHANGED <<worldVars, diskVars, sessVars, histVars, req, ret, got,
                 connID, nextConnectionID, forced, connLog, auxVars>>

\* The rendezvous of e.ack <- true with the caller's <-ack; the caller goes
\* on where ret says, still holding the connection the message named.
ConnectionManagerAck(a) ==
  /\ ~Exited
  /\ cmpc = "ack"
  /\ cmack = a
  /\ pc[a] = "cmWaiting"
  /\ cmpc' = "select"
  /\ cmack' = 0
  /\ pc' = [pc EXCEPT ![a] = ret[a]]
  /\ req' = [req EXCEPT ![a] = IF ret[a] = "io" THEN NoMsg ELSE @]
  /\ UNCHANGED <<worldVars, diskVars, sessVars, histVars, ret, got,
                 connections, connID, nextConnectionID, forced, connLog,
                 auxVars>>

\* A session that is not in a broadcast: kind is Wall or LocationPrintf once
\* the loop has begun, log (history) is what became of each recipient.
NoWall == [kind |-> "none", log |-> <<>>]

\* A caller that holds no copy of the list: copy is what Connections()
\* returned, of (history) is the list as it was when the copy was made.
NoList == [copy |-> <<>>, of |-> <<>>]

\* A Connections that reads the slice without the lock while removeConnection
\* has shifted the elements down and set the last one to nil.
Connections_Torn(conns) ==
  IF Len(conns) > 1 THEN Tail(conns) \o <<Server>> ELSE conns

\* make([]*Connection, 0, len(m.connections)) and append(c, m.connections...):
\* a new array that holds the list's elements in their order.
Connections(conns) == [i \in 1..Len(conns) |-> conns[i]]

\* A goroutine calls Connections() (Server.Wall, the who command).
ConnectionsCall(a) ==
  /\ ~Exited
  /\ pc[a] = "io"
  /\ pc' = [pc EXCEPT ![a] = "listing"]
  /\ UNCHANGED <<worldVars, diskVars, sessVars, cmVars, histVars, req, ret,
                 got, auxVars>>

\* The body of Connections() between RLock and RUnlock.  addConnection and
\* removeConnection hold connMutex.Lock from their first statement to their
\* return, so the copy is made either before or after each of them.
ConnectionsCopy(a) ==
  /\ ~Exited
  /\ pc[a] = "listing"
  /\ pc' = [pc EXCEPT ![a] = "listed"]
  /\ lists' = [lists EXCEPT ![a] = [copy |-> Connections(connections),
                                    of |-> connections]]
  /\ UNCHANGED <<worldVars, diskVars, sessVars, cmVars, histVars, req, ret,
                 got, filterVars, pwVars, idVars, wallVars>>

\* The caller has ranged over the slice it was given and drops it.
ConnectionsReturn(a) ==
  /\ ~Exited
  /\ pc[a] = "listed"
  /\ pc' = [pc EXCEPT ![a] = "io"]
  /\ lists' = [lists EXCEPT ![a] = NoList]
  /\ UNCHANGED <<worldVars, diskVars, sessVars, cmVars, histVars, req, ret,
                 got, filterVars, pwVars, idVars, wallVars>>

\* A caller of the registry: m.Opened <- / m.Closed <- for a connection, from
\* any goroutine, in any order.
RegistryRequests == {Opened(c) : c \in Sessions} \cup {Closed(c) : c \in Sessions}

RegistryIssue(a, m) ==
  /\ ~Exited
  /\ pc[a] = "io"
  /\ m.op = "Opened" => nextConnectionID <= MaxConns
  /\ pc' = [pc EXCEPT ![a] = "cmSending"]
  /\ req' = [req EXCEPT ![a] = m]
  /\ ret' = [ret EXCEPT ![a] = "io"]
  /\ UNCHANGED <<worldVars, diskVars, sessVars, cmVars, histVars, got,
                 auxVars>>

(***************************************************************************)
(* Server.StartServer's shutdown case (src/unnamed/part_004:151-162) and    *)
(* the manager's (src/cm.go:128-132).                                       *)
(***************************************************************************)
\* A shutdown case that writes the snapshot itself, in StartServer's goroutine.
StartServerShutdown_Direct(c) ==
  /\ pc[Server] = "serving"
  /\ pc[c] = "shutdownSend"
  /\ \E o \in SaveOutcomes : disk' = saveState(db, disk, now, o).disk
  /\ pc' = [pc EXCEPT ![Server] = "worldStop", ![c] = "io"]
  /\ UNCHANGED <<worldVars, sessVars, cmVars, histVars, now, req, ret, got,
                 auxVars>>

\* case <-s.Shutdown, received from session c; then the save request is sent.
StartServerShutdown(c) ==
  /\ pc[Server] = "serving"
  /\ pc[c] = "shutdownSend"
  /\ pc' = [pc EXCEPT ![Server] = "sending", ![c] = "io"]
  /\ req' = [req EXCEPT ![Server] = SaveWorldStateMessage]
  /\ ret' = [ret EXCEPT ![Server] = "worldStop"]
  /\ UNCHANGED <<worldVars, diskVars, sessVars, cmVars, histVars, got,
                 auxVars>>

\* A manager that is given the shutdown signal before the world's save.
ConnectionManagerShutdown_First ==
  /\ ~Exited
  /\ cmpc = "select"
  /\ pc[Server] = "sending"
  /\ cmpc' = "closing"
  /\ UNCHANGED <<worldVars, diskVars, callVars, sessVars, histVars,
                 connections, connID, nextConnectionID, cmack, forced, connLog,
                 auxVars>>

\* case <-m.Shutdown, sent by StartServer.
ConnectionManagerShutdown ==
  /\ ~Exited
  /\ cmpc = "select"
  /\ pc[Server] = "cmStop"
  /\ cmpc' = "closing"
  /\ pc' = [pc EXCEPT ![Server] = "return"]
  /\ UNCHANGED <<worldVars, diskVars, sessVars, histVars, req, ret, got,
                connections, connID, nextConnectionID, cmack, forced,
                connLog, auxVars>>

SeqRange(q) == {q[i] : i \in 1..Len(q)}

\* A shutdown case that closes the first registered connection only.
ConnectionManagerCloseAll_First ==
  /\ ~Exited
  /\ cmpc = "closing"
  /\ LET first == IF connections = <<>> THEN {} ELSE {Head(connections)}
     IN  /\ transport' = [c \in Sessions |->
                            IF c \in first THEN "closed" ELSE transport[c]]
         /\ forced' = forced \cup first
  /\ cmpc' = "stopped"
  /\ UNCHANGED <<worldVars, diskVars, callVars, histVars, player,
                 connections, connID, nextConnectionID, cmack, connLog,
                 auxVars>>

\* for _, c := range m.Connections() { c.C.Close() }; return
ConnectionManagerCloseAll ==
  /\ ~Exited
  /\ cmpc = "closing"
  /\ transport' = [c \in Sessions |->
                     IF c \in SeqRange(connections) THEN "closed" ELSE transport[c]]
  /\ forced' = forced \cup SeqRange(connections)
  /\ cmpc' = "stopped"
  /\ UNCHANGED <<worldVars, diskVars, callVars, histVars, player,
                connections, connID, nextConnectionID, cmack, connLog,
                 auxVars>>

\* StartServer returns and main returns with it: the process ends, and with
\* it every goroutine and every open connection.
StartServerReturn ==
  /\ pc[Server] = "return"
  /\ pc' = [c \in Callers |-> IF c = Server THEN "exited" ELSE "dead"]
  /\ req' = [c \in Callers |-> NoMsg]
  /\ ret' = [c \in Callers |-> "io"]
  /\ got' = [c \in Callers |-> NoGot]
  /\ wack' = NoAck
  /\ cmpc' = "stopped"
  /\ cmack' = 0
  /\ transport' = [c \in Sessions |->
                     IF transport[c] = "open" THEN "closed" ELSE transport[c]]
  /\ UNCHANGED <<diskVars, histVars, db, wpc, player, connections, connID,
                nextConnectionID, forced, connLog, auxVars>>

\* world.gob holds a complete encoding of the database d.
Faithful(dk, d) == dk.cur # 0 /\ dk.backups[dk.cur] = Good(d)

\* The next start of the process: NewServer (src/unnamed/part_004:83-96)
\* starts the manager, loads the world and starts its loop, or dies on a load
\* error.  start is the position the sessions of the new process begin at.
NewServer(start) ==
  /\ Exited
  /\ nRestarts < MaxRestarts
  /\ LET l == LoadWorld(disk)
     IN  IF l.err
           THEN /\ pc' = [pc EXCEPT ![Server] = "fatal"]
                /\ UNCHANGED <<db, wpc, rolledBack>>
           ELSE /\ pc' = [c \in Callers |-> IF c = Server THEN "serving" ELSE start]
                /\ db' = l.db
                /\ wpc' = "select"
                /\ rolledBack' = (rolledBack \/ ~Faithful(disk, db))
  /\ wack' = NoAck
  /\ req' = [c \in Callers |-> NoMsg]
  /\ ret' = [c \in Callers |-> "io"]
  /\ got' = [c \in Callers |-> NoGot]
  /\ player' = [c \in Sessions |-> 0]
  /\ connections' = <<>>
  /\ connID' = [c \in Sessions |-> 0]
  /\ nextConnectionID' = 1
  /\ cmpc' = "select"
  /\ cmack' = 0
  /\ transport' = [c \in Sessions |-> "none"]
  /\ forced' = {}
  /\ connLog' = <<>>
  /\ nRestarts' = nRestarts + 1
  /\ UNCHANGED <<diskVars, issued, hist, nCreates, direct, auxVars>>

(***************************************************************************)
(* Spec: the world loop with clients of its channels, which send it any     *)
(* request, and the save timer.                                             *)
(***************************************************************************)
\* A server whose loop holds the database d, with its sessions at position
\* start, session c being logged in as player who[c] (0: as nobody).
InitWorld(start, d, who) ==
  /\ db = d
  /\ wpc = "select"
  /\ wack = NoAck
  /\ disk = NoDisk
  /\ now = 1
  /\ pc = [c \in Callers |-> IF c = Server THEN "serving" ELSE start]
  /\ req = [c \in Callers |-> NoMsg]
  /\ ret = [c \in Callers |-> "io"]
  /\ got = [c \in Callers |-> NoGot]
  /\ player = who
  /\ connections = <<>>
  /\ connID = [c \in Sessions |-> 0]
  /\ nextConnectionID = 1
  /\ cmpc = "select"
  /\ cmack = 0
  /\ transport = [c \in Sessions |-> "none"]
  /\ forced = {}
  /\ connLog = <<>>
  /\ issued = [player |-> DOMAIN d.Players, room |-> DOMAIN d.Rooms \ {1},
               item |-> DOMAIN d.Items]
  /\ rolledBack = FALSE
  /\ hist = <<>>
  /\ nCreates = 0
  /\ direct = 0
  /\ nRestarts = 0
  /\ lists = [c \in Callers |-> NoList]
  /\ reads = <<>>
  /\ outs = <<>>
  /\ ferr = FALSE
  /\ passwords = EmptyMap
  /\ plain = [i \in RequestIDs |-> <<>>]
  /\ parsed = NoReply
  /\ wall = [c \in Sessions |-> NoWall]

\* The server NewServer builds when there is no world.gob.
InitBase(start) == InitWorld(start, NewWorld, [c \in Sessions |-> 0])

\* A server whose connections the peer sends stream to.
InitOn(start, stream) == InitBase(start) /\ wire = stream /\ text = <<>>

\* A server whose connections have delivered nothing yet.
InitAt(start) == InitOn(start, <<>>)

Init == InitAt("io")

Recv(c) == WorldThreadRecv(c) /\ UNCHANGED hist

Next ==
  \/ \E c \in Sessions, m \in ClientRequests : ClientIssue(c, m)
  \/ \E c \in Sessions : Recv(c)
  \/ \E c \in Sessions : WorldThreadAck(c)
  \/ WorldThreadSaveTimer

Spec == Init /\ [][Next]_vars

(***************************************************************************)
(* Protected entities and replies of the loop, checked under Spec.           *)
(***************************************************************************)
\* The request the loop is in the middle of is a destroy of Player 1 or of
\* Room 1.
HandlingDestroyOfOne ==
  /\ wpc = "ack"
  /\ wack.req.op \in {"DestroyPlayer", "DestroyRoom"}
  /\ wack.req.Id = 1

\* C1: destroy(Room, 1) and destroy(Player, 1) always reply false and leave
\* the database unchanged: every value the loop sends in answer to such a
\* request is false, and no step of the loop that is part of handling it
\* changes the database (Room 1 / Player 1 stays, no other entity or counter
\* changes).
C1_DestroyOfOneRefused ==
  [][HandlingDestroyOfOne => (wack.val = Bool(FALSE) /\ db' = db)]_vars

\* C2: every request to the loop gets exactly one reply, after which the loop
\* serves the next request: whenever the loop is blocked sending on a reply
\* channel, the caller that owns the channel is receiving from it, so neither
\* side is left blocked forever.
C2_ReplyAlwaysReceived == wpc = "ack" => pc[wack.to] = "waiting"

UniqueIn(m, counter) == \A k \in DOMAIN m : m[k].Id = k /\ k < counter

SerialRequests == FindRequests \cup CreateRequests \cup DestroyRequests

InFlight == Cardinality({c \in Sessions : pc[c] = "sending"})

SerialIssue(c, m) ==
  /\ Len(hist) + InFlight < MaxHist
  /\ ClientIssue(c, m)

RecvLogged(c) ==
  /\ WorldThreadRecv(c)
  /\ hist' = Append(hist, [c |-> c, req |-> req[c], val |-> wack'.val])

NextSerial ==
  \/ \E c \in Sessions, m \in SerialRequests : SerialIssue(c, m)
  \/ \E c \in Sessions : RecvLogged(c)
  \/ \E c \in Sessions : WorldThreadAck(c)

SpecSerial == Init /\ [][NextSerial]_vars

\* The database a case leaves when it has run to its end.
Complete(o, e) == IF o.more THEN AfterFirstSend(o.db, e).db ELSE o.db

Front(h) == SubSeq(h, 1, Len(h) - 1)

\* The databases a serial execution of the requests of h, one whole case
\* after the other from a fresh world, can end in when every reply is the
\* one h records.
RECURSIVE Replay(_)
Replay(h) ==
  IF h = <<>> THEN {NewWorld}
  ELSE LET e == h[Len(h)]
       IN  {Complete(o, e.req) :
              o \in UNION {{x \in Handle(d, NoDisk, 1, e.req) : x.val = e.val} :
                             d \in Replay(Front(h))}}

FindOps == {"FindPlayer", "FindRoom", "FindItem"}

\* The entities of the request's kind.
EntitiesOf(d, e) ==
  IF e.op = "FindPlayer" THEN Values(d.Players)
  ELSE IF e.op = "FindRoom" THEN Values(d.Rooms)
  ELSE Values(d.Items)

\* No entity of the request's kind has the ID, or else the name, the owner or
\* the location the find request asks for.
MatchesNothing(d, e) ==
  \A x \in EntitiesOf(d, e) :
    IF e.Id > 0 THEN x.Id # e.Id
    ELSE IF e.op = "FindPlayer" /\ e.Name # ""
      THEN ToLower(x.Name) # ToLower(e.Name)
    ELSE IF e.op # "FindPlayer" /\ e.Owner > 0 THEN x.Owner # e.Owner
    ELSE IF e.op # "FindRoom" /\ e.Location # NilLocation
      THEN x.Location # e.Location
    ELSE TRUE

\* The loop takes a find request.
FindStep == wpc = "select" /\ wpc' = "ack" /\ wack'.req.op \in FindOps

\* C26: a find is answered with a list, never with an error; when nothing of
\* its kind matches what it asks for, an ID that was destroyed or never given
\* out included, the list is empty; and handling a find leaves the database
\* as it was.
C26_FindOfNothingIsEmpty ==
  /\ []((wpc = "ack" /\ wack.req.op \in FindOps) =>
          (/\ wack.val.t = "slice"
           /\ MatchesNothing(db, wack.req) => wack.val = Slice({})))
  /\ [][FindStep => db' = db]_vars

\* Item 1 was created and destroyed, and a find of item 1 is answered with an
\* empty list.
C26_Witness ==
  /\ wpc = "ack"
  /\ wack.req = FindItemMessage(1, 0, NilLocation)
  /\ wack.val = Slice({})
  /\ 1 \in issued["item"]
  /\ db.ItemId = 2

DestroyOps == {"DestroyPlayer", "DestroyRoom", "DestroyItem"}

\* The IDs of the live entities of the kind the destroy request names.
LiveIDs(d, e) ==
  IF e.op = "DestroyPlayer" THEN DOMAIN d.Players
  ELSE IF e.op = "DestroyRoom" THEN DOMAIN d.Rooms
  ELSE DOMAIN d.Items

\* The loop takes a destroy request.
DestroyStep == wpc = "select" /\ wpc' = "ack" /\ wack'.req.op \in DestroyOps

\* C27 as stated: a destroy of an ID that names no live entity of its kind is
\* answered false and leaves the database as it was, and a destroy is
\* answered true only when it removed an entity.
C27_DestroyOfNothingIsFalse ==
  [][DestroyStep =>
       /\ wack'.req.Id \notin LiveIDs(db, wack'.req) =>
            (wack'.val = Bool(FALSE) /\ db' = db)
       /\ wack'.val = Bool(TRUE) =>
            (wack'.req.Id \in LiveIDs(db, wack'.req) /\ db' # db)]_vars

\* The entries of m other than those of the keys in gone.
Rest(m, gone) == [k \in DOMAIN m \ gone |-> m[k]]

\* The database d less the one entity the destroy request e names.
Without(d, e) ==
  [PlayerId |-> d.PlayerId, RoomId |-> d.RoomId, ItemId |-> d.ItemId,
   DefaultRoom |-> d.DefaultRoom,
   Players |-> Rest(d.Players, IF e.op = "DestroyPlayer" THEN {e.Id} ELSE {}),
   Rooms |-> Rest(d.Rooms, IF e.op = "DestroyRoom" THEN {e.Id} ELSE {}),
   Items |-> Rest(d.Items, IF e.op = "DestroyItem" THEN {e.Id} ELSE {})]

\* The loop goes from the first send of a Destroy case of ID 1 to its second.
SecondSendStep == wpc = "ack" /\ wack.more /\ ~wack'.more

DestroyRemovesOne ==
  /\ DestroyStep =>
       db' = IF wack'.val = Bool(TRUE) THEN Without(db, wack'.req) ELSE db
  /\ SecondSendStep => db' = Without(db, wack.req)

\* C34: a destroy that answers true has removed the entity of its kind and
\* ID and nothing else: every other entity, also one owned by or located in
\* the entity destroyed, every ID counter and the default-room ID are as
\* they were.
C34_DestroyDoesNotCascade == [][DestroyRemovesOne]_vars

\* Player 1 was destroyed and the item it owns is still in the database.
C34_Witness ==
  /\ wpc = "ack"
  /\ wack.req = DestroyPlayerMessage(1)
  /\ wack.val = Bool(TRUE)
  /\ 1 \notin DOMAIN db.Players
  /\ 1 \in DOMAIN db.Items
  /\ db.Items[1].Owner = 1

(***************************************************************************)
(* SpecOrder: handlers send on three of the loop's channels, and the       *)
(* history records the senders in the order their sends began.  The select *)
(* of WorldThread (src/game.go:475-583) receives from any channel that has *)
(* a sender waiting.                                                       *)
(***************************************************************************)
OrderRequests ==
  {FindPlayerMessage(0, "", NilLocation), NewRoomMessage("hall", 1),
   DestroyItemMessage(1)}

SendLogged(c, m) ==
  /\ Len(hist) < MaxHist
  /\ Send(c, "io", m, "io")
  /\ hist' = Append(hist, c)

NextOrder ==
  \/ \E c \in Sessions, m \in OrderRequests : SendLogged(c, m)
  \/ \E c \in Sessions : Recv(c)
  \/ \E c \in Sessions : WorldThreadAck(c)

SpecOrder == Init /\ [][NextOrder]_vars

\* The place in the history of the send c is blocked in.
LastSend(c) ==
  CHOOSE k \in 1..Len(hist) :
    hist[k] = c /\ \A j \in (k + 1)..Len(hist) : hist[j] # c

RecvOf(c) == pc[c] = "sending" /\ pc'[c] = "waiting"

InArrivalOrder ==
  \A c \in Sessions :
    RecvOf(c) =>
      \A a \in Sessions \ {c} :
        pc[a] = "sending" => LastSend(c) < LastSend(a)

\* C31 as stated: a request whose sender was waiting before another request
\* was issued, also on a different channel, is handled before it.
C31_ArrivalOrder == [][InArrivalOrder]_vars

Waiting == {c \in Sessions : pc[c] = "waiting"}

\* C31 amended: requests are handled one at a time, each case running to the
\* moment its reply is taken before the next request is received, and only
\* requests whose sender is waiting are handled; among the requests waiting
\* at once the select picks any, not the oldest.
C31_OneAtATime ==
  /\ Cardinality(Waiting) = (IF wpc = "ack" THEN 1 ELSE 0)
  /\ wpc = "ack" => (pc[wack.to] = "waiting" /\ wack.req = req[wack.to])

\* The later of two requests waiting on different channels is being
\* answered while the earlier still waits.
C31_Witness ==
  /\ hist = <<1, 2>>
  /\ wpc = "ack"
  /\ wack.to = 2
  /\ pc[1] = "sending"
  /\ req[1].op # wack.req.op


(***************************************************************************)
(* SpecPersist: creates and destroys, snapshots on demand and by the timer, *)
(* the clock that names the backups, and orderly shutdown followed by the   *)
(* next start of the process, which loads world.gob.                        *)
(***************************************************************************)
PersistRequests ==
  {NewPlayerMessage("ann"), NewRoomMessage("hall", 1), NewItemMessage("key", 1),
   DestroyItemMessage(1), SaveWorldStateMessage}

\* time.Now() moves on to the next backup file name.
Tick ==
  /\ now < MaxTime
  /\ now' = now + 1
  /\ UNCHANGED <<worldVars, callVars, sessVars, cmVars, histVars, disk,
                 auxVars>>

NextPersist ==
  \/ \E c \in Sessions, m \in PersistRequests : ClientIssue(c, m)
  \/ \E c \in Callers : Recv(c)
  \/ \E c \in Callers : WorldThreadAck(c)
  \/ WorldThreadSaveTimer
  \/ Tick
  \/ \E c \in Sessions : ClientShutdown(c)
  \/ \E c \in Sessions : StartServerShutdown(c)
  \/ WorldThreadShutdown
  \/ ConnectionManagerShutdown
  \/ ConnectionManagerCloseAll
  \/ StartServerReturn
  \/ NewServer("io")

SpecPersist == Init /\ [][NextPersist]_vars

\* The counter of each kind.
Counter(d) == [player |-> d.PlayerId, room |-> d.RoomId, item |-> d.ItemId]

SaveReturnedNil ==
  /\ wpc = "ack"
  /\ wack.req = SaveWorldStateMessage
  /\ wack.val = Err(FALSE)

\* C21 as stated: whenever a save has returned without error, loading at that
\* point gives, without error, a database equal to the one saved.
C21_SaveLoadRoundTrip ==
  SaveReturnedNil => LoadWorld(disk) = [err |-> FALSE, db |-> db]

\* A step that starts the process: NewServer calls LoadWorld.
StartStep == pc[Server] = "exited" /\ pc'[Server] # "exited"

\* What the start of the process does with the world.gob it finds.
LoadedAsFound ==
  /\ disk.cur = 0 =>
       (db' = NewWorld /\ pc'[Server] = "serving" /\ wpc' = "select")
  /\ (disk.cur # 0 /\ ~disk.backups[disk.cur].ok) =>
       (pc'[Server] = "fatal" /\ wpc' = "stopped")

\* A step of a process that died in NewServer: no loop, no request served.
NothingServed ==
  /\ pc'[Server] = "fatal"
  /\ wpc' = "stopped"
  /\ wack' = NoAck
  /\ db' = db
  /\ disk' = disk
  /\ \A c \in Sessions : pc'[c] = "dead"

\* C22: a start that finds no world.gob serves a freshly initialised database
\* and reports no error; a start that finds a world.gob it cannot decode ends
\* in a fatal error: the process never runs a world loop and no request is
\* served.
C22_LoadAtStartup ==
  /\ [][StartStep => LoadedAsFound]_vars
  /\ [][(pc[Server] = "fatal") => NothingServed]_vars
  /\ [](pc[Server] = "fatal" => (wpc = "stopped" /\ wack = NoAck))

\* The process was started on a world.gob that holds no complete encoding and
\* died in NewServer.
C22_Witness ==
  /\ pc[Server] = "fatal"
  /\ disk.cur # 0
  /\ ~disk.backups[disk.cur].ok

\* The backup file named by time t holds a complete encoding of d.
BackupWritten(dk, t, d) == t \in DOMAIN dk.backups /\ dk.backups[t] = Good(d)

\* The loop takes an explicit save request.
ExplicitSaveStep ==
  /\ wpc = "select"
  /\ wpc' = "ack"
  /\ wack'.req = SaveWorldStateMessage

\* C23: a save leaves the database in memory as it was, whether it was asked
\* for or started by the timer and whether it failed or not; an explicit save
\* that did not leave a complete backup answers its caller with the error; and
\* after a save the loop is at its select again or about to hand over that one
\* answer, so it goes on taking requests.
C23_FailedSaveIsNotFatal ==
  /\ [][ExplicitSaveStep =>
         /\ db' = db
         /\ ~wack'.more
         /\ wack'.val \in {Err(TRUE), Err(FALSE)}
         /\ ~BackupWritten(disk', now, db) => wack'.val = Err(TRUE)]_vars
  /\ [][(disk' # disk) =>
         /\ db' = db
         /\ wpc = "select"
         /\ wpc' \in {"select", "ack"}]_vars

\* A save has left an incomplete backup file, and the loop has since created
\* an item and is handing it to the caller.
C23_Witness ==
  /\ \E t \in DOMAIN disk.backups : disk.backups[t] = Garbled
  /\ wpc = "ack"
  /\ wack.req.op = "NewItem"
  /\ wack.val.t = "ptr"
  /\ db.Players # EmptyMap

\* The timer's case of the select: the loop saves and is at its select again.
TimerSaveStep == wpc' = "select" /\ pc' = pc /\ wack' = wack

\* The loop takes the save request of a caller that was blocked sending it.
RequestedSaveStep ==
  /\ ExplicitSaveStep
  /\ pc[wack'.to] = "sending"
  /\ req[wack'.to] = SaveWorldStateMessage
  /\ pc'[wack'.to] = "waiting"

\* C24: every save is one case of the world loop, taken while the loop is at
\* its select and so not inside a create, a destroy or another save: the files
\* change only in the timer's case or in the case of a save request, the
\* server's request before shutdown included, and the database does not change
\* in that step.
C24_SavesOnlyInLoop ==
  [][(disk' # disk) =>
       /\ wpc = "select"
       /\ db' = db
       /\ TimerSaveStep \/ RequestedSaveStep]_vars

\* Two saves have written their backups and the loop has now run the save
\* StartServer asked for before shutdown, which wrote a third.
C24_Witness ==
  /\ wpc = "ack"
  /\ wack.to = Server
  /\ wack.req = SaveWorldStateMessage
  /\ wack.val = Err(FALSE)
  /\ Cardinality(DOMAIN disk.backups) = MaxTime
  /\ BackupWritten(disk, now, db)
  /\ db.Items # EmptyMap

\* C25 as stated: a backup file, once written, is never written again: no
\* step removes it or changes what it holds.
C25_BackupsNeverOverwritten ==
  [][\A t \in DOMAIN disk.backups :
       t \in DOMAIN disk'.backups /\ disk'.backups[t] = disk.backups[t]]_vars

\* An explicit save that answers its caller with an error leaves what
\* LoadWorld returns as it was.
FailedSaveKeepsCurrent ==
  (ExplicitSaveStep /\ wack'.val = Err(TRUE) /\ ~LoadWorld(disk).err)
    => LoadWorld(disk') = LoadWorld(disk)

\* C40: a save that fails, in creating its file or in encoding, leaves the
\* current snapshot as it was: LoadWorld still returns the database of the
\* last successful save, also when the failed save has the file name of that
\* save.
C40_FailedSaveKeepsSnapshot == [][FailedSaveKeepsCurrent]_vars


(***************************************************************************)
(* SpecAdmin: players are created and destroyed, the database is saved on  *)
(* request and at shutdown, and the next process loads what world.gob      *)
(* holds.  The history records the player every NewPlayer case returns.    *)
(***************************************************************************)
AdminRequests ==
  {NewPlayerMessage("ann"), DestroyPlayerMessage(1), SaveWorldStateMessage}

RecvPlayerLogged(c) ==
  /\ WorldThreadRecv(c)
  /\ hist' = IF req[c].op = "NewPlayer" THEN Append(hist, wack'.val.v)
             ELSE hist

NextAdmin ==
  \/ \E c \in Sessions, m \in AdminRequests : ClientIssue(c, m)
  \/ \E c \in Callers : RecvPlayerLogged(c)
  \/ \E c \in Callers : WorldThreadAck(c)
  \/ \E c \in Sessions : ClientShutdown(c)
  \/ \E c \in Sessions : StartServerShutdown(c)
  \/ WorldThreadShutdown
  \/ ConnectionManagerShutdown
  \/ ConnectionManagerCloseAll
  \/ StartServerReturn
  \/ NewServer("io")

SpecAdmin == Init /\ [][NextAdmin]_vars

AdminsCreated == {k \in 1..Len(hist) : hist[k].Admin}

\* C32: a create returns an admin exactly when it returns Player ID 1, and
\* over creates, destroys, saves and loads at most one create ever returns
\* an admin.
C32_OneAdminEver ==
  /\ \A k \in 1..Len(hist) : hist[k].Admin <=> (hist[k].Id = 1)
  /\ Cardinality(AdminsCreated) <= 1


(***************************************************************************)
(* SpecRegistry: goroutines open and close connections at the registry in   *)
(* any order, also one that is registered already or one that is not.       *)
(***************************************************************************)
NextRegistry ==
  \/ \E a \in Sessions, m \in RegistryRequests : RegistryIssue(a, m)
  \/ \E a \in Sessions : ConnectionManagerOpened(a)
  \/ \E a \in Sessions : ConnectionManagerClosed(a)
  \/ \E a \in Sessions : ConnectionManagerAck(a)
  \/ \E a \in Sessions : ConnectionsCall(a)
  \/ \E a \in Sessions : ConnectionsCopy(a)
  \/ \E a \in Sessions : ConnectionsReturn(a)

SpecRegistry == Init /\ [][NextRegistry]_vars

\* C10: across any sequence of opens and closes no two registered sessions
\* have the same connection identifier, and every identifier assigned is
\* strictly greater than all assigned before it, so that the identifier of a
\* closed session is not given out again.
C10_ConnectionIDsUniqueAndIncreasing ==
  /\ \A i, j \in 1..Len(connections) :
       i # j => connID[connections[i]] # connID[connections[j]]
  /\ \A i, j \in 1..Len(connLog) : i < j => connLog[i] < connLog[j]
  /\ \A i \in 1..Len(connLog) : connLog[i] < nextConnectionID

\* A session was opened, closed and opened again, the other is registered
\* too, and three identifiers were assigned.
C10_Witness ==
  /\ Len(connLog) = 3
  /\ Len(connections) = 2
  /\ connID[1] = 3
  /\ connID[2] = 2

\* C11: handling an open of a connection that is registered leaves the list,
\* every connection's identifier and the next-identifier counter as they
\* were, and handling a close of a connection that is not registered leaves
\* them as they were too.
C11_OpenCloseIdempotent ==
  [][\A a \in Sessions :
       (cmpc = "select" /\ cmpc' = "ack" /\ cmack' = a) =>
         /\ (req[a].op = "Opened" /\ req[a].c \in SeqRange(connections)) =>
              /\ connections' = connections
              /\ connID' = connID
              /\ nextConnectionID' = nextConnectionID
              /\ connLog' = connLog
         /\ (req[a].op = "Closed" /\ req[a].c \notin SeqRange(connections)) =>
              /\ connections' = connections
              /\ connID' = connID
              /\ nextConnectionID' = nextConnectionID]_vars

\* The manager has just handled an open of connection 1, which was registered
\* before connection 2 was: both are in the list with the identifiers they
\* were given and no third identifier was assigned.
C11_Witness ==
  /\ cmpc = "ack"
  /\ req[cmack] = Opened(1)
  /\ connections = <<1, 2>>
  /\ connID[1] = 1
  /\ connID[2] = 2
  /\ connLog = <<1, 2>>
  /\ nextConnectionID = 3

StartServerAccept(c) ==
  /\ pc[Server] = "serving"
  /\ pc[c] \in {"absent", "done"}
  /\ nextConnectionID <= MaxConns
  /\ transport' = [transport EXCEPT ![c] = "open"]
  /\ connID' = [connID EXCEPT ![c] = 0]
  /\ player' = [player EXCEPT ![c] = 0]
  /\ pc' = [pc EXCEPT ![Server] = "cmSending", ![c] = "accepted"]
  /\ req' = [req EXCEPT ![Server] = Opened(c)]
  /\ ret' = [ret EXCEPT ![Server] = "spawn"]
  /\ UNCHANGED <<worldVars, diskVars, histVars, got, connections,
                 nextConnectionID, cmpc, cmack, forced, connLog, auxVars>>

\* go connectionWorker(c), once newConnection returned.
StartServerSpawn ==
  /\ pc[Server] = "spawn"
  /\ pc' = [pc EXCEPT ![Server] = "serving", ![req[Server].c] = "login"]
  /\ req' = [req EXCEPT ![Server] = NoMsg]
  /\ UNCHANGED <<worldVars, diskVars, sessVars, cmVars, histVars, ret, got,
                 auxVars>>

\* Login: the user name was read, FindPlayer{Name} is sent.
LoginName(c, name) ==
  Call(c, "login", FindPlayerMessage(0, name, NilLocation), "loginFound")

\* Login, no player of that name: the passwords are read, NewPlayer is sent.
LoginNew(c) ==
  /\ pc[c] = "loginFound"
  /\ got[c].val.v = {}
  /\ Call(c, "loginFound", NewPlayerMessage(got[c].req.Name), "loginNew")

\* Login, the new player arrived: c.Player = p.
LoginCreated(c) ==
  /\ pc[c] = "loginNew"
  /\ player' = [player EXCEPT ![c] = got[c].val.v.Id]
  /\ pc' = [pc EXCEPT ![c] = "io"]
  /\ got' = [got EXCEPT ![c] = NoGot]
  /\ UNCHANGED <<worldVars, diskVars, cmVars, histVars, req, ret, transport,
                 auxVars>>

\* Login of an existing player whose password was accepted: c.Player = p.
LoginExisting(c) ==
  /\ pc[c] = "loginFound"
  /\ \E p \in got[c].val.v : player' = [player EXCEPT ![c] = p.Id]
  /\ pc' = [pc EXCEPT ![c] = "io"]
  /\ got' = [got EXCEPT ![c] = NoGot]
  /\ UNCHANGED <<worldVars, diskVars, cmVars, histVars, req, ret, transport,
                 auxVars>>

\* c.IsAdmin(): the Admin field of the player the session is logged in as.
IsAdmin(c) ==
  /\ player[c] \in DOMAIN db.Players
  /\ db.Players[player[c]].Admin

\* The requests of the commands of a logged-in session.
ShellRequests(c) == {FindRoomMessage(1, 0), NewItemMessage("key", player[c])}

WorldRequests == UNION {ShellRequests(c) : c \in Sessions}

ShellCommand(c, m) ==
  /\ player[c] # 0
  /\ m \in ShellRequests(c)
  /\ ClientIssue(c, m)

\* The shutdown command: if c.IsAdmin() { c.Server.Shutdown <- true }.
ShellShutdown(c) ==
  /\ IsAdmin(c)
  /\ ClientShutdown(c)

\* Connection.Close, run when the worker returns (its transport failed or
\* the user left): m.Closed <- {c}, then <-ack.
ConnectionClose(c) ==
  /\ ~Exited
  /\ pc[c] \in IOStates
  /\ pc' = [pc EXCEPT ![c] = "cmSending"]
  /\ req' = [req EXCEPT ![c] = Closed(c)]
  /\ ret' = [ret EXCEPT ![c] = "closeDefer"]
  /\ got' = [got EXCEPT ![c] = NoGot]
  /\ UNCHANGED <<worldVars, diskVars, sessVars, cmVars, histVars, auxVars>>

\* defer c.C.Close() of Connection.Close; the worker goroutine ends.
ConnectionCloseDeferred(c) ==
  /\ ~Exited
  /\ pc[c] = "closeDefer"
  /\ transport' = [transport EXCEPT ![c] = "closed"]
  /\ pc' = [pc EXCEPT ![c] = "done"]
  /\ req' = [req EXCEPT ![c] = NoMsg]
  /\ UNCHANGED <<worldVars, diskVars, cmVars, histVars, ret, got, player,
                 auxVars>>

NextServer ==
  \/ \E c \in Sessions : StartServerAccept(c)
  \/ \E a \in Callers : ConnectionManagerOpened(a)
  \/ \E a \in Callers : ConnectionManagerClosed(a)
  \/ \E a \in Callers : ConnectionManagerAck(a)
  \/ StartServerSpawn
  \/ \E c \in Sessions, n \in PlayerNames : LoginName(c, n)
  \/ \E c \in Sessions : LoginNew(c)
  \/ \E c \in Sessions : LoginCreated(c)
  \/ \E c \in Sessions : LoginExisting(c)
  \/ \E c \in Sessions, m \in WorldRequests : ShellCommand(c, m)
  \/ \E c \in Sessions : ShellShutdown(c)
  \/ \E c \in Sessions : ConnectionClose(c)
  \/ \E c \in Sessions : ConnectionCloseDeferred(c)
  \/ \E c \in Sessions : Recv(c)
  \/ RecvLogged(Server)
  \/ \E c \in Callers : WorldThreadAck(c)
  \/ \E c \in Sessions : StartServerShutdown(c)
  \/ WorldThreadShutdown
  \/ ConnectionManagerShutdown
  \/ ConnectionManagerCloseAll
  \/ StartServerReturn

InitServer == InitAt("absent")

SpecServer == InitServer /\ [][NextServer]_vars

\* C7 as stated: once the loop has accepted the shutdown signal no session
\* handler is blocked sending a request to it or waiting for its reply.
C7_NoRequestToStoppedLoop ==
  wpc = "stopped" => \A c \in Sessions : pc[c] \notin {"sending", "waiting"}

\* StartServer is in its accept loop (or registering what it accepted).
Accepting == pc[Server] \in {"serving", "cmSending", "cmWaiting", "spawn"}

\* The loop has answered the server's final SaveWorldState.
FinalSaveAnswered ==
  /\ Len(hist) > 0
  /\ hist[Len(hist)].req = SaveWorldStateMessage
  /\ pc[Server] \notin {"sending", "waiting"}

\* C8: shutdown goes in a fixed order.  The final save is requested only
\* when StartServer has left its accept loop; the world loop stops only when
\* it has answered that save; and the registry takes its shutdown signal, and
\* force-closes transports, only when the world loop has stopped.
C8_ShutdownOrder ==
  /\ Len(hist) > 0 => ~Accepting
  /\ wpc = "stopped" => FinalSaveAnswered
  /\ (cmpc \in {"closing", "stopped"} \/ forced # {}) =>
       (wpc = "stopped" /\ FinalSaveAnswered /\ ~Accepting)

\* The registry has force-closed the transports of both sessions.
C8_Witness ==
  /\ forced = Sessions
  /\ \A c \in Sessions : transport[c] = "closed"
  /\ cmpc = "stopped"
  /\ pc[Server] = "return"

\* A step that leaves the registry where its shutdown case put it.
RegistryStaysHalted ==
  /\ cmpc' \in {"closing", "stopped"}
  /\ connections' = connections
  /\ connID' = connID
  /\ nextConnectionID' = nextConnectionID
  /\ connLog' = connLog
  /\ \A a \in Callers : pc[a] = "cmSending" => pc'[a] \in {"cmSending", "dead"}

\* C13: once the registry has taken its shutdown signal it handles no open
\* and no close (the list, the identifiers and the counter stay as they were
\* and a goroutine sending to it stays blocked), and when it has halted the
\* transport of every connection that was registered is closed, by the
\* registry itself as long as the process runs.
C13_ShutdownClosesAllAndHalts ==
  /\ [](cmpc = "stopped" =>
          (/\ \A c \in SeqRange(connections) : transport[c] = "closed"
           /\ ~Exited => SeqRange(connections) \subseteq forced))
  /\ [][(cmpc = "closing" \/ cmpc = "stopped") => RegistryStaysHalted]_vars

\* The registry has halted with two connections registered, whose transports
\* it closed, and the handler of one of them is sending its close request to
\* the registry, which no longer takes it.
C13_Witness ==
  /\ cmpc = "stopped"
  /\ ~Exited
  /\ Len(connections) = 2
  /\ forced = Sessions
  /\ \E c \in Sessions : pc[c] = "cmSending" /\ req[c].op = "Closed"

\* C9: the loop never waits on a client's network I/O.  While a session
\* handler is blocked on its transport the loop is not waiting for that
\* handler, and the request of any other handler is received when the loop
\* is at its select and answered when the loop has its reply.
C9_LoopNeverWaitsOnIO ==
  \A a \in Sessions :
    pc[a] \in IOStates =>
      /\ ~(wpc = "ack" /\ wack.to = a)
      /\ \A b \in Sessions \ {a} :
           /\ (wpc = "select" /\ pc[b] = "sending") => ENABLED Recv(b)
           /\ (wpc = "ack" /\ wack.to = b /\ pc[b] = "waiting")
                => ENABLED WorldThreadAck(b)

\* Session 1 is reading its user name while the loop answers session 2.
C9_Witness ==
  /\ pc[1] = "login"
  /\ pc[2] = "waiting"
  /\ wpc = "ack"
  /\ wack.to = 2

(***************************************************************************)
(* SpecDirect: logged-in sessions and their commands, among them those that *)
(* reach into the world's data without a message to its loop.               *)
(***************************************************************************)
\* Connection.FindAllPlayers: for _, p := range c.Server.World.db.Players.
FindAllPlayers(c) ==
  /\ pc[c] = "io"
  /\ player[c] # 0
  /\ direct' = c
  /\ UNCHANGED <<worldVars, diskVars, callVars, sessVars, cmVars, issued,
                 rolledBack, hist, nCreates, nRestarts, auxVars>>

\* FindLocalThing's lookup of an item by its ID, for Take and for Drop.
TakeFind(c, id) ==
  /\ player[c] # 0
  /\ Call(c, "io", FindItemMessage(id, 0, NilLocation), "take")

DropFind(c, id) ==
  /\ player[c] # 0
  /\ Call(c, "io", FindItemMessage(id, 0, NilLocation), "drop")

\* The item a reply points to, as it is now.
Deref(i) == IF i.Id \in DOMAIN db.Items THEN db.Items[i.Id] ELSE i

\* c.Player.Location, read through the session's pointer to its player.
PlayerLocation(c) == db.Players[player[c]].Location

\* item.Location = loc through the pointer of a reply: it changes the
\* database if the item is still in it.
WriteLocation(d, id, loc) ==
  IF id \in DOMAIN d.Items THEN [d EXCEPT !.Items[id].Location = loc] ELSE d

\* FindLocalThing once the lookup answered: the item counts as found if it
\* is at loc or the session is an admin's.  The handler goes on with the
\* pointer it was given.
MoveCheck(c, at, loc, next) ==
  /\ pc[c] = at
  /\ LET found == {i \in got[c].val.v : Deref(i).Location = loc \/ IsAdmin(c)}
     IN  IF found = {}
           THEN /\ pc' = [pc EXCEPT ![c] = "io"]
                /\ got' = [got EXCEPT ![c] = NoGot]
           ELSE \E i \in found :
                  /\ pc' = [pc EXCEPT ![c] = next]
                  /\ got' = [got EXCEPT ![c].val = Ptr(i)]
  /\ UNCHANGED <<worldVars, diskVars, sessVars, cmVars, histVars, req, ret,
                 auxVars>>

\* The item found is moved to dest with a plain assignment through the
\* pointer, and the move is announced.
MoveWrite(c, at, dest) ==
  /\ pc[c] = at
  /\ db' = WriteLocation(db, got[c].val.v.Id, dest)
  /\ direct' = c
  /\ pc' = [pc EXCEPT ![c] = "io"]
  /\ got' = [got EXCEPT ![c] = NoGot]
  /\ UNCHANGED <<diskVars, sessVars, cmVars, wpc, wack, req, ret, issued,
                 rolledBack, hist, nCreates, nRestarts, auxVars>>

\* Take: FindLocalThing(c.Player.Location, ...), then
\* item.Location = Location{c.Player.ID, LocationPlayer}.
TakeCheck(c) == MoveCheck(c, "take", PlayerLocation(c), "takeFound")

TakeWrite(c) == MoveWrite(c, "takeFound", Location(player[c], L_PLAYER))

\* Drop: FindLocalThing(Location{c.Player.ID, LocationPlayer}, ...), then
\* item.Location = c.Player.Location.
DropCheck(c) == MoveCheck(c, "drop", Location(player[c], L_PLAYER), "dropFound")

DropWrite(c) == MoveWrite(c, "dropFound", PlayerLocation(c))

NextDirect ==
  \/ \E c \in Sessions, n \in PlayerNames : LoginName(c, n)
  \/ \E c \in Sessions : LoginNew(c)
  \/ \E c \in Sessions : LoginCreated(c)
  \/ \E c \in Sessions : LoginExisting(c)
  \/ \E c \in Sessions, m \in WorldRequests : ShellCommand(c, m)
  \/ \E c \in Sessions : FindAllPlayers(c)
  \/ \E c \in Sessions, id \in RequestIDs : TakeFind(c, id)
  \/ \E c \in Sessions : TakeCheck(c)
  \/ \E c \in Sessions : TakeWrite(c)
  \/ \E c \in Sessions, id \in RequestIDs : DropFind(c, id)
  \/ \E c \in Sessions : DropCheck(c)
  \/ \E c \in Sessions : DropWrite(c)
  \/ \E c \in Sessions : Recv(c)
  \/ \E c \in Sessions : WorldThreadAck(c)

InitDirect == InitAt("login")

SpecDirect == InitDirect /\ [][NextDirect]_vars

\* C4: the world database is read and written only by the loop while it
\* handles a request: every step that changes the database is a step of the
\* loop (it changes what the loop is sending), and no session handler reads
\* the collections or assigns to an entity's field directly.
C4_OnlyLoopTouchesDatabase ==
  [][(db' # db => wack' # wack) /\ direct' = direct]_vars

(***************************************************************************)
(* TelnetInterceptor (src/unnamed/part_006): the reader that strips telnet   *)
(* escape sequences from what a connection delivers.                         *)
(***************************************************************************)
MaxLen == 5      \* bytes the peer sends
MaxReads == 2    \* calls of Read

escapeSe == 240
escapeGa == 249
escapeSb == 250
escapeDoNT == 254
escapeIac == 255

\* The bytes of the model: data (0 and 'h'), the first and the last single
\* command (SE 240, GA 249), the first and the last verb that takes an option
\* (SB 250, DONT 254) and the escape.
WireBytes == {0, 104, escapeSe, escapeGa, escapeSb, escapeDoNT, escapeIac}

Streams == UNION {[1..n -> WireBytes] : n \in 0..MaxLen}

\* inSeq, option, setting and p as Read declares them before its loop.
NewRead == [inSeq |-> FALSE, option |-> 0, setting |-> 0, p |-> <<>>]

\* An append that leaves out what is not below the command bytes.
Emit_DataOnly(p, b) == IF b >= escapeSe THEN p ELSE Append(p, b)

\* An append at the front.
Emit_Front(p, b) == <<b>> \o p

\* p = append(p, b)
Emit(p, b) == Append(p, b)

\* A switch for which every command byte takes an option.
Switch_AllTakeOption(s, b) ==
  IF s.option # 0
    THEN [s |-> [s EXCEPT !.setting = b], continue |-> FALSE]
  ELSE IF b = escapeIac
    THEN [s |-> [s EXCEPT !.inSeq = FALSE, !.option = 0], continue |-> FALSE]
  ELSE IF b >= escapeSe
    THEN [s |-> [s EXCEPT !.option = b], continue |-> TRUE]
  ELSE [s |-> s, continue |-> FALSE]

\* A switch that hands an escaped escape on as the byte 255.
Switch_LiteralIac(s, b) ==
  IF s.option # 0
    THEN [s |-> [s EXCEPT !.setting = b], continue |-> FALSE]
  ELSE IF b = escapeIac
    THEN [s |-> [s EXCEPT !.inSeq = FALSE, !.option = 0, !.p = Append(@, b)],
          continue |-> TRUE]
  ELSE IF b >= escapeSb
    THEN [s |-> [s EXCEPT !.option = b], continue |-> TRUE]
  ELSE IF b >= escapeSe
    THEN [s |-> [s EXCEPT !.inSeq = FALSE], continue |-> TRUE]
  ELSE [s |-> s, continue |-> FALSE]

\* The switch Read runs on a byte while inSeq: the cases in their order, and
\* whether the case ends in continue.
Switch(s, b) ==
  IF s.option # 0
    THEN [s |-> [s EXCEPT !.setting = b], continue |-> FALSE]
  ELSE IF b = escapeIac
    THEN [s |-> [s EXCEPT !.inSeq = FALSE, !.option = 0], continue |-> FALSE]
  ELSE IF b >= escapeSb
    THEN [s |-> [s EXCEPT !.option = b], continue |-> TRUE]
  ELSE IF b >= escapeSe
    THEN [s |-> [s EXCEPT !.inSeq = FALSE], continue |-> TRUE]
  ELSE [s |-> s, continue |-> FALSE]

\* What the loop body does below the switch.
AfterSwitch(s, b) ==
  IF s.option # 0 /\ s.setting # 0
    THEN [s EXCEPT !.inSeq = FALSE]
  ELSE IF ~s.inSeq
    THEN IF b = escapeIac
           THEN [s EXCEPT !.inSeq = TRUE]
           ELSE [s EXCEPT !.p = Emit(@, b)]
  ELSE s

\* One turn of the loop over buf.
ReadByte(s0, b) ==
  LET s == IF s0.option # 0 /\ s0.setting # 0
             THEN [s0 EXCEPT !.option = 0, !.setting = 0]
             ELSE s0
  IN  IF s.inSeq
        THEN LET r == Switch(s, b)
             IN  IF r.continue THEN r.s ELSE AfterSwitch(r.s, b)
        ELSE AfterSwitch(s, b)

RECURSIVE ReadLoop(_, _)
ReadLoop(s, buf) ==
  IF buf = <<>> THEN s ELSE ReadLoop(ReadByte(s, Head(buf)), Tail(buf))

\* What Read leaves in p when the wrapped reader delivered buf[0:n].
Read(buf) == ReadLoop(NewRead, buf).p

\* t.i.Read(buf) delivers the next n bytes and Read filters them into p.
InterceptorRead(n) ==
  /\ ~ferr
  /\ Len(reads) < MaxReads
  /\ n <= Len(wire)
  /\ reads' = Append(reads, SubSeq(wire, 1, n))
  /\ outs' = Append(outs, Read(SubSeq(wire, 1, n)))
  /\ wire' = SubSeq(wire, n + 1, Len(wire))
  /\ UNCHANGED <<worldVars, diskVars, callVars, sessVars, cmVars, histVars,
                 lists, ferr, pwVars, idVars, wallVars>>

\* t.i.Read(buf) returns an error once the peer's bytes are delivered (the
\* peer closed): Read returns the error and hands no bytes on.
InterceptorReadError ==
  /\ ~ferr
  /\ wire = <<>>
  /\ ferr' = TRUE
  /\ UNCHANGED <<worldVars, diskVars, callVars, sessVars, cmVars, histVars,
                 lists, wire, reads, outs, pwVars, idVars, wallVars>>

(***************************************************************************)
(* SpecFilter: the peer sends any stream of at most MaxLen bytes and the     *)
(* connection delivers it to Read in any cut.                                *)
(***************************************************************************)
InitFilter == \E stream \in Streams : InitOn("io", stream)

NextFilter ==
  \/ \E n \in 1..MaxLen : InterceptorRead(n)
  \/ InterceptorReadError

SpecFilter == InitFilter /\ [][NextFilter]_vars

\* No byte of q is the escape.
NoEscape(q) == \A j \in 1..Len(q) : q[j] # escapeIac

RECURSIVE Concat(_)
Concat(qs) == IF qs = <<>> THEN <<>> ELSE Head(qs) \o Concat(Tail(qs))

RECURSIVE IsSubseq(_, _)
IsSubseq(a, b) ==
  IF a = <<>> THEN TRUE
  ELSE IF b = <<>> THEN FALSE
  ELSE IF Head(a) = Head(b) THEN IsSubseq(Tail(a), Tail(b))
  ELSE IsSubseq(a, Tail(b))

C15_NegotiationStripped ==
  \A i \in 1..Len(reads) :
    \A k \in 1..(Len(reads[i]) - 2) :
      LET w == reads[i]
          pre == SubSeq(w, 1, k - 1)
          post == SubSeq(w, k + 3, Len(w))
      IN  (/\ w[k] = escapeIac
           /\ w[k + 1] \in escapeSb..escapeDoNT
           /\ NoEscape(pre)
           /\ NoEscape(post)) => outs[i] = pre \o post

\* C16 as stated: where a Read was delivered the escape twice in a row, with
\* no other escape before or after, it hands on what came before and what
\* came after the pair.
C16_EscapedEscape ==
  \A i \in 1..Len(reads) :
    \A k \in 1..(Len(reads[i]) - 1) :
      LET w == reads[i]
          pre == SubSeq(w, 1, k - 1)
          post == SubSeq(w, k + 2, Len(w))
      IN  (/\ w[k] = escapeIac
           /\ w[k + 1] = escapeIac
           /\ NoEscape(pre)
           /\ NoEscape(post)) => outs[i] = pre \o post

C19_CutIndependent == Concat(outs) = Read(Concat(reads))

Passwords == {"correct horse battery staple", "a", "A"}

PasswordOps == {"SetPassword", "CheckPassword"}

PasswordMessage(op, id, pw) == [op |-> op, ID |-> id, Password |-> pw]

\* hashPassword on the texts of the model: their SHA-256 digests.
hashPassword(s) ==
  CASE s = "correct horse battery staple" ->
         <<196, 187, 203, 31, 190, 201, 157, 101, 191, 89, 216, 92,
         140, 182, 46, 226, 219, 150, 63, 15, 225, 6, 244, 131, 217,
         175, 167, 59, 212, 227, 154, 138>>
    [] s = "a" ->
         <<202, 151, 129, 18, 202, 27, 189, 202, 250, 194, 49, 179,
         154, 35, 220, 77, 167, 134, 239, 248, 20, 124, 78, 114, 185,
         128, 119, 133, 175, 238, 72, 187>>
    [] s = "A" ->
         <<85, 154, 234, 208, 130, 100, 213, 121, 93, 57, 9, 113, 140,
         221, 5, 171, 212, 149, 114, 232, 79, 229, 85, 144, 238, 243,
         26, 136, 160, 143, 223, 253>>

\* A set that leaves a record that exists as it is.
SetPasswordCase_KeepFirst(pws, e) ==
  [pws |-> IF e.ID \in DOMAIN pws THEN pws
           ELSE (e.ID :> hashPassword(e.Password)) @@ pws,
   val |-> Bool(TRUE)]

\* case e := <-w.SetPassword: the hash of the text becomes the record of
\* the ID; the answer is true.
SetPasswordCase(pws, e) ==
  [pws |-> (e.ID :> hashPassword(e.Password)) @@ pws,
   val |-> Bool(TRUE)]

\* case e := <-w.CheckPassword: true when the ID has a record and it is the
\* hash of the text.
CheckPasswordCase(pws, e) ==
  [pws |-> pws,
   val |-> Bool(e.ID \in DOMAIN pws /\ pws[e.ID] = hashPassword(e.Password))]

HandlePassword(pws, e) ==
  IF e.op = "SetPassword" THEN SetPasswordCase(pws, e)
  ELSE CheckPasswordCase(pws, e)

LastTwo(s) == IF Len(s) <= 2 THEN s ELSE Tail(s)

\* One password case of the select, up to its send on e.Ack.
WorldThreadPassword(c) ==
  /\ ~Exited
  /\ wpc = "select"
  /\ pc[c] = "sending"
  /\ req[c].op \in PasswordOps
  /\ LET o == HandlePassword(passwords, req[c])
     IN  /\ passwords' = o.pws
         /\ wack' = [to |-> c, val |-> o.val, more |-> FALSE, req |-> req[c]]
  /\ plain' = IF req[c].op = "SetPassword"
                THEN [plain EXCEPT ![req[c].ID] =
                        LastTwo(Append(@, req[c].Password))]
                ELSE plain
  /\ wpc' = "ack"
  /\ pc' = [pc EXCEPT ![c] = "waiting"]
  /\ UNCHANGED <<db, diskVars, sessVars, cmVars, histVars, req, ret, got,
                 lists, filterVars, idVars, wallVars>>

\* c.setPassword(id, pw) and c.checkPassword(id, pw) of a session.
PasswordIssue(c) ==
  \E op \in PasswordOps, id \in RequestIDs, pw \in Passwords :
    ClientIssue(c, PasswordMessage(op, id, pw))

NextPassword ==
  \/ \E c \in Sessions : PasswordIssue(c)
  \/ \E c \in Sessions : WorldThreadPassword(c)
  \/ \E c \in Sessions : WorldThreadAck(c)

SpecPassword == Init /\ [][NextPassword]_vars

\* The check that the loop has answered and the caller has not yet taken.
CheckAnswered == wpc = "ack" /\ wack.req.op = "CheckPassword"

LastSet(id) == plain[id][Len(plain[id])]

\* C28: a check of a player ID that has had a password set is answered true
\* when the candidate is the text of the last set for that ID and false for
\* every other text, so a later set replaces the earlier password.
C28_CheckMatchesLastSet ==
  (CheckAnswered /\ plain[wack.req.ID] # <<>>)
    => wack.val = Bool(LastSet(wack.req.ID) = wack.req.Password)

\* A password was replaced and a check of the earlier one is answered false.
C28_Witness ==
  /\ CheckAnswered
  /\ Len(plain[wack.req.ID]) = 2
  /\ plain[wack.req.ID][1] = wack.req.Password
  /\ plain[wack.req.ID][2] # wack.req.Password
  /\ wack.val = Bool(FALSE)

(***************************************************************************)
(* The text form of IDs: ParseId (src/game.go:235-243) and the table of    *)
(* TestIDType (src/game_test.go:26-53).  A text is a sequence of           *)
(* characters.  IdType is uint64; the texts of the model stay far below    *)
(* 2^64, so the range error of ParseUint is not reached.                   *)
(***************************************************************************)
MaxText == 3     \* length of the texts enumerated
MaxId == 12      \* IDs rendered

Digits == {"0", "1", "2", "3", "4", "5", "6", "7", "8", "9"}

DigitValue(c) ==
  CASE c = "0" -> 0 [] c = "1" -> 1 [] c = "2" -> 2 [] c = "3" -> 3
    [] c = "4" -> 4 [] c = "5" -> 5 [] c = "6" -> 6 [] c = "7" -> 7
    [] c = "8" -> 8 [] c = "9" -> 9

DigitOf(d) == CHOOSE c \in Digits : DigitValue(c) = d

\* Results of ParseId: (IdType(i), nil) and (0, error).
ParsedId(i) == [t |-> "id", v |-> i]
ParseError == [t |-> "error", v |-> 0]

RECURSIVE DecimalValue(_)
DecimalValue(s) ==
  IF s = <<>> THEN 0
  ELSE 10 * DecimalValue(SubSeq(s, 1, Len(s) - 1)) + DigitValue(s[Len(s)])

\* strconv.ParseUint(s, 10, 64): one or more decimal digits, nothing else.
ParseUint(s) ==
  IF s # <<>> /\ \A k \in 1..Len(s) : s[k] \in Digits
    THEN ParsedId(DecimalValue(s))
    ELSE ParseError

ParseId(s) == ParseUint(s)

RECURSIVE Decimal(_)
Decimal(n) ==
  IF n < 10 THEN <<DigitOf(n)>>
  ELSE Decimal(n \div 10) \o <<DigitOf(n % 10)>>

\* The text of an ID: "@" and its decimal digits.
Render(n) == <<"@">> \o Decimal(n)

\* var idTests of the test file: text, expected ID, error expected.
idTests ==
  {[s |-> <<"@", "1">>, i |-> 1, e |-> FALSE],
   [s |-> <<"@", "8", "7", "6", "5", "4">>, i |-> 87654, e |-> FALSE],
   [s |-> <<"@", "0">>, i |-> 0, e |-> FALSE],
   [s |-> <<"@", "-", "1">>, i |-> 0, e |-> TRUE],
   [s |-> <<"0">>, i |-> 0, e |-> TRUE],
   [s |-> <<"1", "2", "3", "4">>, i |-> 0, e |-> TRUE],
   [s |-> <<" ", " ", "@", "1", " ", " ", " ">>, i |-> 1, e |-> FALSE],
   [s |-> <<"@", " ", " ", "1", "2", "3">>, i |-> 0, e |-> TRUE]}

TextChars == {"@", "-", " ", "0", "1", "9"}

Texts ==
  UNION {[1..n -> TextChars] : n \in 0..MaxText}
    \cup {x.s : x \in idTests}
    \cup {Render(n) : n \in 0..MaxId}

InitID == InitBase("io") /\ wire = <<>> /\ text \in Texts

\* id, err := ParseId(text)
ParseIdCall ==
  /\ parsed = NoReply
  /\ parsed' = ParseId(text)
  /\ UNCHANGED <<worldVars, diskVars, callVars, sessVars, cmVars, histVars,
                 lists, filterVars, pwVars, text, wallVars>>

NextID == ParseIdCall

SpecID == InitID /\ [][NextID]_vars

\* C29: the rendered text of every ID n >= 0 parses to n without error.
C29_RenderParseRoundTrip ==
  \A n \in 0..MaxId :
    (text = Render(n) /\ parsed # NoReply) => parsed = ParsedId(n)

RECURSIVE TrimLeft(_)
TrimLeft(s) ==
  IF s # <<>> /\ Head(s) = " " THEN TrimLeft(Tail(s)) ELSE s

RECURSIVE TrimRight(_)
TrimRight(s) ==
  IF s # <<>> /\ s[Len(s)] = " "
    THEN TrimRight(SubSeq(s, 1, Len(s) - 1)) ELSE s

TrimSpace(s) == TrimRight(TrimLeft(s))

\* "@" followed by decimal digits only.
AtAndDigits(s) ==
  /\ Len(s) >= 2
  /\ s[1] = "@"
  /\ \A k \in 2..Len(s) : s[k] \in Digits

Padded1 == <<" ", " ", "@", "1", " ", " ", " ">>

\* C30: a text is accepted only when, trimmed of surrounding whitespace, it
\* is "@" followed by decimal digits only; every other text is rejected with
\* an error, and "  @1   " parses to 1.
C30_ParseRequiresAtPrefix ==
  parsed # NoReply =>
    /\ parsed.t = "id" => AtAndDigits(TrimSpace(text))
    /\ text = Padded1 => parsed = ParsedId(1)

(***************************************************************************)
(* SpecBroadcast: Server.Wall (src/unnamed/part_004:333-338) and            *)
(* Connection.LocationPrintf (src/unnamed/part_004:258-268) by logged-in    *)
(* sessions, while other connections are accepted, log in and close.  A     *)
(* session of the model is one connection: it is accepted once.             *)
(***************************************************************************)
AcceptOnce(c) == pc[c] = "absent" /\ StartServerAccept(c)

\* A loop that ranges over the registry's list as it is now.
Recipients_Live(a) == connections

\* for _, c := range s.Connections(): the slice the call returned.
Recipients(a) == lists[a].copy

\* conn.InLocation(loc): authenticated, with a player, at that location.
InLocation(c, loc) ==
  /\ player[c] # 0
  /\ player[c] \in DOMAIN db.Players
  /\ db.Players[player[c]].Location = loc

\* conn.Printf: Shell.Print if the connection has a shell, which it is given
\* once Login returned; the write is lost on a closed transport and its
\* error goes nowhere.
Printf(c) ==
  IF player[c] # 0 /\ transport[c] = "open" THEN "written" ELSE "lost"

\* One turn of the loop of Wall or of LocationPrintf for the location of
\* the broadcaster's player.
BroadcastTurn(a, kind) ==
  /\ ~Exited
  /\ pc[a] = "listed"
  /\ player[a] # 0
  /\ wall[a].kind \in {"none", kind}
  /\ Len(wall[a].log) < Len(Recipients(a))
  /\ LET c == Recipients(a)[Len(wall[a].log) + 1]
         out == IF kind = "LocationPrintf"
                     /\ ~InLocation(c, db.Players[player[a]].Location)
                  THEN "skipped" ELSE Printf(c)
     IN  wall' = [wall EXCEPT ![a] =
                    [kind |-> kind,
                     log |-> Append(@.log, [to |-> c, out |-> out])]]
  /\ UNCHANGED <<worldVars, diskVars, callVars, sessVars, cmVars, histVars,
                 lists, filterVars, pwVars, idVars>>

\* The loop has come to the end of its slice: the broadcast returns.
BroadcastReturn(a) ==
  /\ ~Exited
  /\ pc[a] = "listed"
  /\ Len(wall[a].log) >= Len(Recipients(a))
  /\ pc' = [pc EXCEPT ![a] = "io"]
  /\ lists' = [lists EXCEPT ![a] = NoList]
  /\ wall' = [wall EXCEPT ![a] = NoWall]
  /\ UNCHANGED <<worldVars, diskVars, sessVars, cmVars, histVars, req, ret,
                 got, filterVars, pwVars, idVars>>

NextBroadcast ==
  \/ \E c \in Sessions : AcceptOnce(c)
  \/ \E a \in Callers : ConnectionManagerOpened(a)
  \/ \E a \in Callers : ConnectionManagerClosed(a)
  \/ \E a \in Callers : ConnectionManagerAck(a)
  \/ StartServerSpawn
  \/ \E c \in Sessions, n \in PlayerNames : LoginName(c, n)
  \/ \E c \in Sessions : LoginNew(c)
  \/ \E c \in Sessions : LoginCreated(c)
  \/ \E c \in Sessions : LoginExisting(c)
  \/ \E c \in Sessions : Recv(c)
  \/ \E c \in Sessions : WorldThreadAck(c)
  \/ \E c \in Sessions : ConnectionClose(c)
  \/ \E c \in Sessions : ConnectionCloseDeferred(c)
  \/ \E a \in Sessions : ConnectionsCall(a)
  \/ \E a \in Sessions : ConnectionsCopy(a)
  \/ \E a \in Sessions, kind \in {"Wall", "LocationPrintf"} :
       BroadcastTurn(a, kind)
  \/ \E a \in Sessions : BroadcastReturn(a)

SpecBroadcast == InitServer /\ [][NextBroadcast]_vars

Addressed(a) == [k \in 1..Len(wall[a].log) |-> wall[a].log[k].to]

\* The recipients addressed so far are the first of the snapshot, each once
\* and in its order, and Wall leaves none of them out.
OneSnapshotEachOnce(a) ==
  /\ lists[a].copy = lists[a].of
  /\ \A i, j \in 1..Len(lists[a].of) : i # j => lists[a].of[i] # lists[a].of[j]
  /\ Len(wall[a].log) <= Len(lists[a].of)
  /\ Addressed(a) = SubSeq(lists[a].of, 1, Len(wall[a].log))
  /\ \A k \in 1..Len(wall[a].log) :
       /\ wall[a].kind = "Wall" => wall[a].log[k].out # "skipped"
       /\ wall[a].log[k].out = "written" => player[wall[a].log[k].to] # 0

\* While the broadcast runs its snapshot stays the one it took, and it
\* returns only when it has gone through the whole of it.
BroadcastRunsThrough ==
  \A a \in Sessions :
    pc[a] = "listed" =>
      /\ pc'[a] = "listed" => lists'[a] = lists[a]
      /\ pc'[a] # "listed" => Len(wall[a].log) = Len(lists[a].of)

\* C33: a broadcast works on one snapshot of the registry and addresses the
\* sessions of that snapshot one after the other, each at most once; a
\* session that closed since only misses the message, a session registered
\* since gets nothing, and the loop goes on to the end of the snapshot
\* either way.
C33_BroadcastOverOneSnapshot ==
  /\ [](\A a \in Sessions : pc[a] = "listed" => OneSnapshotEachOnce(a))
  /\ [][BroadcastRunsThrough]_vars

\* Session 1 has gone through its snapshot of both sessions: session 2 had
\* logged in and has closed since, so its message was lost, and the
\* broadcaster's own was written.
C33_Witness ==
  /\ pc[1] = "listed"
  /\ lists[1].copy = <<1, 2>>
  /\ Len(wall[1].log) = 2
  /\ wall[1].log[1].out = "written"
  /\ wall[1].log[2].out = "lost"
  /\ player[2] # 0
  /\ transport[2] = "closed"
  /\ connections = <<1>>

(***************************************************************************)
(* SpecItems: two logged-in players in the lobby, an admin (player 1) and   *)
(* one who is not (player 2), and an item that lies in the lobby or is held *)
(* by one of them; the sessions take, drop and summon                       *)
(* (src/unnamed/part_003:685-737, 1045-1100).  No connection is in the      *)
(* registry's list, so FindOnlinePlayersByLocation finds nobody.            *)
(***************************************************************************)
ItemPlaces == {Location(1, L_ROOM), Location(1, L_PLAYER), Location(2, L_PLAYER)}

ItemWorld(loc) ==
  [NewWorld EXCEPT
     !.PlayerId = 3, !.ItemId = 2,
     !.Players = (1 :> [Id |-> 1, Name |-> "ann",
                        Location |-> Location(1, L_ROOM), Admin |-> TRUE])
                 @@ (2 :> [Id |-> 2, Name |-> "bob",
                           Location |-> Location(1, L_ROOM), Admin |-> FALSE]),
     !.Items = (1 :> [Id |-> 1, Name |-> "key", Owner |-> 1, Location |-> loc])]

LoggedIn == [c \in Sessions |-> IF c = 1 THEN 1 ELSE 2]

InitItems ==
  \E loc \in ItemPlaces :
    InitWorld("io", ItemWorld(loc), LoggedIn) /\ wire = <<>> /\ text = <<>>

\* The summon command: Summon goes on after "Only admins can summon
\* things." and calls findTarget, whose FindLocalThing looks the ID up as
\* an item first.
SummonFind(c, id) ==
  /\ player[c] # 0
  /\ Call(c, "io", FindItemMessage(id, 0, NilLocation), "summon")

\* findTarget: the item is a target if it is where the player is, or held by
\* the player, or the session is an admin's; with no item, FindLocalThing
\* goes on to FindRoomByID.
SummonCheck(c) ==
  /\ pc[c] = "summon"
  /\ LET found == {i \in got[c].val.v :
                     \/ Deref(i).Location = PlayerLocation(c)
                     \/ Deref(i).Location = Location(player[c], L_PLAYER)
                     \/ IsAdmin(c)}
     IN  IF found = {}
           THEN Call(c, "summon", FindRoomMessage(got[c].req.Id, 0), "summonRoom")
           ELSE /\ \E i \in found :
                     /\ pc' = [pc EXCEPT ![c] = "summonFound"]
                     /\ got' = [got EXCEPT ![c].val = Ptr(i)]
                /\ UNCHANGED <<worldVars, diskVars, sessVars, cmVars, histVars,
                               req, ret, auxVars>>

\* The target is an item: i.Location = Location{LocationPlayer, c.Player.ID}.
SummonItem(c) == MoveWrite(c, "summonFound", Location(player[c], L_PLAYER))

\* The target is a room, which FindLocalThing gives when its ID is that of
\* the location searched or the session is an admin's:
\* c.Move(Location{LocationRoom, r.ID}), which assigns c.Player.Location.
SummonRoom(c) ==
  /\ pc[c] = "summonRoom"
  /\ LET id == got[c].req.Id
         target == /\ got[c].val.v # {}
                   /\ (PlayerLocation(c).Id = id \/ player[c] = id \/ IsAdmin(c))
     IN  IF target
           THEN /\ db' = [db EXCEPT !.Players[player[c]].Location =
                                      Location(id, L_ROOM)]
                /\ direct' = c
           ELSE UNCHANGED <<db, direct>>
  /\ pc' = [pc EXCEPT ![c] = "io"]
  /\ got' = [got EXCEPT ![c] = NoGot]
  /\ UNCHANGED <<diskVars, sessVars, cmVars, wpc, wack, req, ret, issued,
                 rolledBack, hist, nCreates, nRestarts, auxVars>>

NextItems ==
  \/ \E c \in Sessions, id \in RequestIDs : SummonFind(c, id)
  \/ \E c \in Sessions : SummonCheck(c)
  \/ \E c \in Sessions : SummonItem(c)
  \/ \E c \in Sessions : SummonRoom(c)
  \/ \E c \in Sessions, id \in RequestIDs : TakeFind(c, id)
  \/ \E c \in Sessions : TakeCheck(c)
  \/ \E c \in Sessions : TakeWrite(c)
  \/ \E c \in Sessions, id \in RequestIDs : DropFind(c, id)
  \/ \E c \in Sessions : DropCheck(c)
  \/ \E c \in Sessions : DropWrite(c)
  \/ \E c \in Sessions : Recv(c)
  \/ \E c \in Sessions : WorldThreadAck(c)

SpecItems == InitItems /\ [][NextItems]_vars

\* Session c comes to the end of a summon.
SummonEnds(c) == pc[c] \in {"summonFound", "summonRoom"} /\ pc'[c] = "io"

SummonByOthersMovesNothing ==
  \A c \in Sessions : (SummonEnds(c) /\ ~IsAdmin(c)) => db' = db

\* C35: the summon of a logged-in player who is not an admin changes no
\* location, of an item, of a player or of the caller; only an admin's
\* summon relocates anything.
C35_SummonIsAdminOnly == [][SummonByOthersMovesNothing]_vars

\* The item both sessions hold a pointer to, found by each, lies where both
\* players are.
BothFound(a, b) ==
  /\ pc[a] = "takeFound"
  /\ pc[b] = "takeFound"
  /\ got[a].val.v.Id = got[b].val.v.Id
  /\ PlayerLocation(a) = PlayerLocation(b)
  /\ Deref(got[a].val.v).Location = PlayerLocation(a)

\* C37: of two sessions in one room that take the same item at the same
\* time only one finds it and picks it up; the other is told the item is
\* not there.
C37_OnePickup ==
  \A a, b \in Sessions : a # b => ~BothFound(a, b)

(***************************************************************************)
(* SpecLogin: sessions that do nothing but log in, each with Login's two    *)
(* round trips, FindPlayer{Name} and, when nothing was found, NewPlayer     *)
(* (src/unnamed/part_004:380-420).                                          *)
(***************************************************************************)
NextLogin ==
  \/ \E c \in Sessions, n \in PlayerNames : LoginName(c, n)
  \/ \E c \in Sessions : LoginNew(c)
  \/ \E c \in Sessions : LoginCreated(c)
  \/ \E c \in Sessions : LoginExisting(c)
  \/ \E c \in Sessions : Recv(c)
  \/ \E c \in Sessions : WorldThreadAck(c)

SpecLogin == InitDirect /\ [][NextLogin]_vars

\* C36: whatever the interleaving of the logins, each a find by name and a
\* create when nothing was found, the database never holds two players
\* whose names are equal when case is ignored.
C36_NamesStayUnique ==
  \A p, q \in DOMAIN db.Players :
    p # q => ToLower(db.Players[p].Name) # ToLower(db.Players[q].Name)

\* q ends with the bytes of post.
EndsWith(q, post) ==
  /\ Len(q) >= Len(post)
  /\ SubSeq(q, Len(q) - Len(post) + 1, Len(q)) = post

\* C38: no control sequence takes more than three bytes: where a Read was
\* delivered the escape, with no other escape before or after, it hands on
\* every byte from the fourth of the sequence onward, whatever the byte after
\* the escape and whatever the option code.
C38_AtMostThreeBytes ==
  \A i \in 1..Len(reads) :
    \A k \in 1..Len(reads[i]) :
      LET w == reads[i]
          pre == SubSeq(w, 1, k - 1)
          post == SubSeq(w, k + 3, Len(w))
      IN  (/\ w[k] = escapeIac
           /\ NoEscape(pre)
           /\ NoEscape(SubSeq(w, k + 1, Len(w)))) => EndsWith(outs[i], post)

(***************************************************************************)
(* SpecClose: the server of SpecServer with the scheduling the Go runtime   *)
(* gives it.  A goroutine that can take a step takes one in the end (weak   *)
(* fairness of the steps of the registry's goroutine, of StartServer's and  *)
(* of a closing worker); the registry's select, which picks among its ready *)
(* cases at random, does not pass over a Closed that is ready again and     *)
(* again (strong fairness).                                                 *)
(***************************************************************************)
CloseFairness ==
  /\ \A a \in Callers : SF_vars(ConnectionManagerClosed(a))
  /\ \A a \in Callers : SF_vars(ConnectionManagerOpened(a))
  /\ \A a \in Callers : WF_vars(ConnectionManagerAck(a))
  /\ \A c \in Sessions : WF_vars(ConnectionCloseDeferred(c))
  /\ WF_vars(ConnectionManagerCloseAll)
  /\ WF_vars(StartServerReturn)

SpecClose == InitServer /\ [][NextServer]_vars /\ CloseFairness

\* Connection.Close of session c has begun: its Closed message is on offer.
Closing(c) == pc[c] = "cmSending" /\ req[c] = Closed(c)

\* Close has returned: the registry does not hold c, the ack was received
\* and the worker has ended.
CloseCompleted(c) == pc[c] = "done" /\ c \notin SeqRange(connections)

\* C39: every session that ends, by a failed login, by the client leaving or
\* by its transport being force-closed at shutdown, completes its close in
\* the end: it is taken off the registry, its close request is acknowledged
\* and its handler terminates.
C39_CloseCompletes ==
  \A c \in Sessions : Closing(c) ~> CloseCompleted(c)

====
